---- MODULE Spec2Model ----
(***************************************************************************)
(* A model of editly's frame pipeline (src/dist/index.js):                 *)
(*   - parseConfig's transition clamp and the Transition constructor,      *)
(*   - FrameSource.readNextFrame (the layer time window),                  *)
(*   - createFrameSource.readNextFrame (the clip renderer),                *)
(*   - Transition.create (the compositor),                                 *)
(*   - the scheduler loop of Editly,                                       *)
(*   - rawVideoToFrames (the chunk reassembler).                           *)
(*   - Editly around the loop: temporary directory, encode process, the    *)
(*     try / catch / finally blocks, and the calls that may throw,         *)
(*   - the GPU resources of one effect blend.                              *)
(*                                                                         *)
(* Time.  Durations are whole numbers of ticks, TicksPerSec ticks to the   *)
(* second.  Clip durations are even tick counts, so that duration / 2 is   *)
(* a whole number of ticks too.  A ratio (a progress, a time inside a      *)
(* clip) is a pair <<n, d>> with d > 0, standing for n / d; it is never    *)
(* rounded.  fps is a whole number of frames per second.                   *)
(*                                                                         *)
(* Frames.  A buffer is a tuple that says where its bytes come from:       *)
(*   <<"layer", clip, layer, n, d>>  what layer `layer` of clip `clip`     *)
(*                                   returned for progress n / d,          *)
(*   <<"canvas", clip, objs>>        the rendering of a surface holding    *)
(*                                   the objects objs, bottom first,       *)
(*   <<"blend", from, to, n, d>>     a new buffer, the effect blend of     *)
(*                                   two buffers at eased progress n / d.  *)
(* NoFrame (the empty tuple) is JavaScript's undefined.                    *)
(***************************************************************************)
EXTENDS Integers, Sequences, FiniteSets, TLC

\* ------------------------------------------------------------- bounds

\* Ticks to the second: the resolution of the durations of the model.
TicksPerSec == 8
\* The longest timeline of the timing family.
MaxClips == 3
\* Clip durations of the timing family are 2, 4, .., 2 * MaxHalfDur ticks.
MaxHalfDur == 2
\* Layer reads that may come back empty in one run.
MaxGaps == 1

NoFrame == <<>>

Min(a, b) == IF a <= b THEN a ELSE b

\* Math.round of a / b, for a >= 0 and b > 0: floor(a / b + 1/2).
Round(a, b) == (2 * a + b) \div (2 * b)

\* A ratio n / d is the pair <<n, d>>, d > 0.
RatLeq(x, y) == x[1] * y[2] <= y[1] * x[2]
RatLt(x, y) == x[1] * y[2] < y[1] * x[2]
Half == <<1, 2>>

\* Numbers of the source are IEEE doubles (53 significant bits, round to
\* nearest, ties to even).  A double that is the result of rounded operations
\* on exact inputs is kept as <<n, d, side>>: the ratio n / d the operations
\* have when exact, and the side of it the double lies on (-1 below, 0 on it,
\* 1 above); the double is within a few units in the last place of n / d.
SignificantBits == 53

RECURSIVE Pow2(_)
Pow2(x) == IF x <= 0 THEN 1 ELSE 2 * Pow2(x - 1)

\* 2^x modulo y, eight bits at a time.
RECURSIVE Pow2Mod(_, _)
Pow2Mod(x, y) ==
  IF x <= 8 THEN Pow2(x) % y ELSE (Pow2(8) * Pow2Mod(x - 8, y)) % y

\* floor(log2(a / b)) for a, b > 0.
RECURSIVE FloorLog2(_, _)
FloorLog2(a, b) ==
  IF a >= b THEN (IF a >= 2 * b THEN 1 + FloorLog2(a, 2 * b) ELSE 0)
  ELSE FloorLog2(2 * a, b) - 1

Sign(x) == IF x > 0 THEN 1 ELSE IF x < 0 THEN -1 ELSE 0

\* k / n as a double q, for the binary exponent f of k / n: the numerator of
\* q - k / n over n, in units of the last place of q.
QuotientError(k, n, f) ==
  LET rem == (k * Pow2Mod((SignificantBits - 1) - f, n)) % n
  IN  IF 2 * rem > n THEN n - rem ELSE 0 - rem

\* m * k = n * 2^g: the exact product is a power of two.
ProductIsPowerOfTwo(m, k, n, g) ==
  IF g >= 0 THEN m * k = n * Pow2(g) ELSE m * k * Pow2(0 - g) = n

\* The bits the product m * q has beyond the significand of a double: g and
\* f are the binary exponents of m * k / n and of k / n, and m * q falls
\* short of the binade of m * k / n only when that is a power of two and q
\* is below k / n.
ProductShift(m, k, n, f, g, delta) ==
  g - f - (IF ProductIsPowerOfTwo(m, k, n, g) /\ delta < 0 THEN 1 ELSE 0)

\* m * q rounded to a double p, to the nearest, ties to even: p - m * q in
\* units of the last place of q, from the low c + 1 bits of m * q.
ProductError(m, k, n, f, delta, c) ==
  LET Qlow == ((k * Pow2Mod((SignificantBits - 1) - f, n * Pow2(c + 1))
                  + delta + n * Pow2(c + 1)) % (n * Pow2(c + 1))) \div n
      Plow == (m * Qlow) % Pow2(c + 1)
      low  == Plow % Pow2(c)
      odd  == Plow \div Pow2(c) = 1
      up   == 2 * low > Pow2(c) \/ (2 * low = Pow2(c) /\ odd)
  IN  IF c = 0 THEN 0 ELSE IF up THEN Pow2(c) - low ELSE 0 - low

\* The side of m * (k / n), computed in doubles as the source computes it
\* (the quotient rounded, then the product rounded), of the exact m * k / n:
\* -1 below, 0 equal, 1 above.  f and g are the binary exponents of k / n
\* and of m * k / n.
DoubleSide(m, k, n) ==
  IF m <= 0 \/ k <= 0 \/ n <= 0 THEN 0
  ELSE CHOOSE side \in {-1, 0, 1} :
         \E f \in {FloorLog2(k, n)}, g \in {FloorLog2(m * k, n)} :
           \E delta \in {QuotientError(k, n, f)} :
             \E c \in {ProductShift(m, k, n, f, g, delta)} :
               side = Sign(n * ProductError(m, k, n, f, delta, c) + m * delta)
Tenth == <<1, 10>>

\* ------------------------------------------------------ configuration

\* The easing functions by name (const easings).
easings == {"easeInOutCubic", "easeOutExpo", "linear"}

\* The effect library (glTransitions), cut to two of its names.
glTransitions == {"fade", "directional"}

\* The keys of const TransitionAliases.
TransitionAliases ==
  {"directional-left", "directional-right", "directional-down",
   "directional-up"}

\* What Object.assign(options, aliasedTransition) leaves in options: the
\* four aliases give the same name and easing; they differ in
\* params.direction, which the effect alone reads.
AliasAssigned(o) ==
  [o EXCEPT !.name = "directional", !.easing = "easeOutExpo"]

\* String.prototype.toLowerCase for the letters of the names in use.
LowerCaseOf(ch) ==
  CASE ch = "A" -> "a" [] ch = "B" -> "b" [] ch = "C" -> "c" [] ch = "D" -> "d"
    [] ch = "E" -> "e" [] ch = "F" -> "f" [] ch = "G" -> "g" [] ch = "H" -> "h"
    [] ch = "I" -> "i" [] ch = "J" -> "j" [] ch = "K" -> "k" [] ch = "L" -> "l"
    [] ch = "M" -> "m" [] ch = "N" -> "n" [] ch = "O" -> "o" [] ch = "P" -> "p"
    [] ch = "Q" -> "q" [] ch = "R" -> "r" [] ch = "S" -> "s" [] ch = "T" -> "t"
    [] ch = "U" -> "u" [] ch = "V" -> "v" [] ch = "W" -> "w" [] ch = "X" -> "x"
    [] ch = "Y" -> "y" [] ch = "Z" -> "z" [] OTHER -> ch
RECURSIVE toLowerCase(_)
toLowerCase(str) ==
  IF Len(str) = 0 THEN ""
  ELSE LowerCaseOf(SubSeq(str, 1, 1)) \o toLowerCase(SubSeq(str, 2, Len(str)))

\* glTransitions.find(({ name }) => name.toLowerCase() ===
\* this.name?.toLowerCase()): the entries of the library the name finds.
FindTransition(name) ==
  {entry \in glTransitions : toLowerCase(entry) = toLowerCase(name)}

\* An absent "duration" key of a transition.
NoDuration == -1

\* A clip's "transition" option as the caller wrote it.  given = FALSE is no
\* object: an absent option (NoTransition) or null (NullTransition, null set).
\* In an object name = "", duration = NoDuration and easing = "" are absent
\* keys.
NoTransition ==
  [given |-> FALSE, null |-> FALSE, name |-> "", duration |-> NoDuration,
   easing |-> ""]
NullTransition == [NoTransition EXCEPT !.null = TRUE]
TransitionOption(name, duration, easing) ==
  [given |-> TRUE, null |-> FALSE, name |-> name, duration |-> duration,
   easing |-> easing]

\* const globalDefaults: a clip lasts 4 s, a transition is a random effect of
\* half a second.
globalDefaults ==
  [ duration   |-> 4 * TicksPerSec,
    transition |-> [name |-> "random", duration |-> TicksPerSec \div 2] ]

\* The "transition" of merge({}, this.defaults, clip): null stays null, an
\* absent option becomes the default transition, an object keeps its keys
\* and takes the default's for those it lacks.
MergeTransition(default, t) ==
  IF t.null THEN t
  ELSE [ given    |-> TRUE,
         null     |-> FALSE,
         name     |-> IF t.name # "" THEN t.name ELSE default.name,
         duration |-> IF t.duration # NoDuration THEN t.duration
                      ELSE default.duration,
         easing   |-> t.easing ]

\* new Configuration(input).clips, for an input without "defaults": each clip
\* with the transition merged from the defaults, its layers and its duration.
Configuration(clipsIn) ==
  [i \in 1..Len(clipsIn) |->
     [ duration   |-> clipsIn[i].duration,
       transition |-> MergeTransition(globalDefaults.transition,
                                      clipsIn[i].transition),
       layers     |-> clipsIn[i].layers ]]

\* The constructor's assertions on the clips: at least one clip, and at
\* least one layer in every clip.
ConfigurationValid(clipsIn) ==
  /\ Len(clipsIn) > 0
  /\ \A i \in 1..Len(clipsIn) : Len(clipsIn[i].layers) > 0

\* const AllTransitions: what getRandomTransition() draws from.
AllTransitions == glTransitions \cup TransitionAliases

\* The options the constructor goes on with: { duration: 0 } for no object
\* and for the last clip.
TransitionOptions(options, isLastClip) ==
  IF ~options.given \/ isLastClip
  THEN TransitionOption("", 0, "")
  ELSE options

\* The duration of a Transition object is counted in half ticks: parseConfig
\* sets it to the half of a clip's duration, which is a whole number of half
\* ticks and not always of ticks.
HalfTicksPerSec == 2 * TicksPerSec
HalfTicks(ticks) == 2 * ticks

\* new Transition(options, isLastClip): the fields the pipeline reads.
\* random is what getRandomTransition() returns if it is called.
\* source is the name of the library's entry the name finds, whatever the
\* case it is written in; source = "" is an undefined this.source (no name,
\* the name "dummy", or a name that finds no entry).
Transition(options, isLastClip, random) ==
  LET o1 == TransitionOptions(options, isLastClip)
      o2 == IF o1.name = "random" THEN [o1 EXCEPT !.name = random] ELSE o1
      o3 == IF o2.name \in TransitionAliases THEN AliasAssigned(o2) ELSE o2
  IN  [ name     |-> o3.name,
        duration |-> IF o3.duration = NoDuration THEN 0
                     ELSE HalfTicks(o3.duration),
        easing   |-> IF o3.easing \in easings THEN o3.easing ELSE "linear",
        source   |-> IF /\ o3.name # ""
                        /\ o3.name # "dummy"
                        /\ FindTransition(o3.name) # {}
                     THEN CHOOSE entry \in FindTransition(o3.name) : TRUE
                     ELSE "" ]

\* The constructor's assertions: a duration other than 0, an absent one too,
\* needs a name, and a name other than "dummy" must find an effect of the
\* library.
TransitionValid(options, isLastClip, random) ==
  LET o1 == TransitionOptions(options, isLastClip)
      t  == Transition(options, isLastClip, random)
  IN  /\ (o1.duration = 0 \/ o1.name # "")
      /\ (t.name = "" \/ t.name = "dummy" \/ t.source \in glTransitions)

\* A layer as the caller wrote it: stop = 0 is an absent "stop".
LayerOption(type, start, stop) == [type |-> type, start |-> start, stop |-> stop]

\* parseConfig's second pass over a clip's layers: layerDuration.
ParseLayer(layerIn, clipDuration) ==
  [ type          |-> layerIn.type,
    start         |-> layerIn.start,
    layerDuration |-> (IF layerIn.stop # 0 THEN layerIn.stop ELSE clipDuration)
                        - layerIn.start ]

\* parseConfig's assertion on a layer.
LayerValid(layerIn, clipDuration) ==
  LET d == ParseLayer(layerIn, clipDuration).layerDuration
  IN  d > 0 /\ d <= clipDuration

\* let clipDuration = clip.duration; if (!clipDuration) clipDuration =
\* video?.layerDuration ?? defaults.duration: the model has no video layer;
\* a duration of 0 is an absent or a zero duration.
ClipDuration(clipIn, defaults) ==
  IF clipIn.duration # 0 THEN clipIn.duration ELSE defaults.duration

\* parseConfig's first pass: one clip with its Transition and its layers.
ParseClip(clipsIn, i, defaults, random) ==
  [ duration   |-> ClipDuration(clipsIn[i], defaults),
    transition |-> Transition(clipsIn[i].transition, i = Len(clipsIn), random),
    layers     |-> [l \in 1..Len(clipsIn[i].layers) |->
                      ParseLayer(clipsIn[i].layers[l],
                                 ClipDuration(clipsIn[i], defaults))] ]

\* Mutant of safeTransitionDuration: the next clip is not looked at.
safeTransitionDuration_OwnHalfOnly(clipsOut, i) ==
  IF i < Len(clipsOut)
  THEN Min(clipsOut[i].duration, clipsOut[i].transition.duration)
  ELSE 0

\* parseConfig's clamp of clip i's transition duration: the least of half the
\* clip, half the next clip and the configured duration; 0 without a next clip.
\* In half ticks: clip.duration / 2 is as many half ticks as the clip has
\* ticks, so no half is rounded.
safeTransitionDuration(clipsOut, i) ==
  IF i < Len(clipsOut)
  THEN Min(Min(clipsOut[i].duration, clipsOut[i + 1].duration),
           clipsOut[i].transition.duration)
  ELSE 0

\* parseConfig({ clips, defaults }): the clips the pipeline runs on.
\* randoms[i] is what getRandomTransition() returns for clip i.
parseConfig(clipsIn, defaults, randoms) ==
  LET clipsOut == [i \in 1..Len(clipsIn) |->
                     ParseClip(clipsIn, i, defaults, randoms[i])]
  IN  [i \in 1..Len(clipsIn) |->
         [clipsOut[i] EXCEPT
            !.transition.duration = safeTransitionDuration(clipsOut, i)]]

\* The configurations parseConfig accepts: every clip has a duration, its
\* own or the default's (defaults.duration = 0 is no default), a valid
\* transition and valid layers.
ConfigValid(clipsIn, defaults, randoms) ==
  \A i \in 1..Len(clipsIn) :
    /\ ClipDuration(clipsIn[i], defaults) # 0
    /\ TransitionValid(clipsIn[i].transition, i = Len(clipsIn), randoms[i])
    /\ \A l \in 1..Len(clipsIn[i].layers) :
         LayerValid(clipsIn[i].layers[l], ClipDuration(clipsIn[i], defaults))

\* The draws of getRandomTransition() a configuration can see: one of
\* AllTransitions for a clip whose constructor draws, "" (no draw) for the
\* others.
RandomDraws(clipsIn) ==
  {r \in [1..Len(clipsIn) -> AllTransitions \cup {""}] :
     \A i \in 1..Len(clipsIn) :
       (r[i] # "") =
         (TransitionOptions(clipsIn[i].transition, i = Len(clipsIn)).name
            = "random")}

\* What Editly runs on its caller's clips: the Configuration constructor,
\* then parseConfig with the configuration's defaults.
EditlyAccepts(clipsIn, randoms) ==
  /\ ConfigurationValid(clipsIn)
  /\ ConfigValid(Configuration(clipsIn), globalDefaults, randoms)
EditlyClips(clipsIn, randoms) ==
  parseConfig(Configuration(clipsIn), globalDefaults, randoms)

\* ------------------------------------------------------- frame sources

\* Layer types of the model: a "canvas" layer returns its own buffer
\* (canvasToRgba), a "fill-color" layer adds a rectangle to the surface it is
\* handed and returns nothing, an "audio" layer has no frame source.
ReturnsBuffer(type) == type = "canvas"

\* Mutant of FrameSource_readNextFrame: the end of the window is left out
\* (offsetProgress < 1).
FrameSource_readNextFrame_HalfOpen(layer, time) ==
  LET offsetTime     == <<time[1] - layer.start * time[2], time[2], time[3]>>
      offsetProgress == <<offsetTime[1], offsetTime[2] * layer.layerDuration>>
      shouldDrawLayer ==
        /\ \/ offsetProgress[1] > 0
           \/ offsetProgress[1] = 0 /\ offsetTime[3] >= 0
        /\ offsetProgress[1] < offsetProgress[2]
  IN  [invoked |-> shouldDrawLayer, progress |-> offsetProgress]

\* FrameSource.readNextFrame(time, canvas) of one layer, time = <<n, d, side>>
\* a double of ticks: whether the producer is invoked, and the progress it is
\* invoked with (the ratio the double handed over stands for).
\*   offsetTime = time - start; offsetProgress = offsetTime / layerDuration;
\*   shouldDrawLayer = offsetProgress >= 0 && offsetProgress <= 1
\* start and layerDuration are whole ticks: the difference is exact and keeps
\* the side of time, and the quotient is at least 0, at most 1, exactly when
\* the difference is at least 0, at most layerDuration.
FrameSource_readNextFrame(layer, time) ==
  LET offsetTime     == <<time[1] - layer.start * time[2], time[2], time[3]>>
      offsetProgress == <<offsetTime[1], offsetTime[2] * layer.layerDuration>>
      shouldDrawLayer ==
        /\ \/ offsetProgress[1] > 0
           \/ offsetProgress[1] = 0 /\ offsetTime[3] >= 0
        /\ \/ offsetProgress[1] < offsetProgress[2]
           \/ offsetProgress[1] = offsetProgress[2] /\ offsetTime[3] <= 0
  IN  [invoked |-> shouldDrawLayer, progress |-> offsetProgress]

\* What the producer of layer l of clip c does when invoked with progress p:
\* the buffer it returns (NoFrame for none, also when the read is a gap) and
\* the objects it adds to the surface.
Producer(c, l, type, p, gap) ==
  IF ReturnsBuffer(type)
  THEN [rgba |-> IF gap THEN NoFrame ELSE <<"layer", c, l, p[1], p[2]>>,
        added |-> <<>>]
  ELSE [rgba |-> NoFrame, added |-> << <<"rect", c, l>> >>]

\* Mutant of visualLayers: the layers that get a frame source, last first.
visualLayers_Reversed(layers) ==
  LET RECURSIVE Keep(_)
      Keep(i) == IF i > Len(layers) THEN <<>>
                 ELSE Keep(i + 1)
                      \o (IF layers[i].type # "audio" THEN <<i>> ELSE <<>>)
  IN  Keep(1)

\* createFrameSource: the layers that get a frame source, in layer order
\* (layers.filter((layer) => layer.type !== "audio")), as indices into layers.
visualLayers(layers) ==
  LET RECURSIVE Keep(_)
      Keep(i) == IF i > Len(layers) THEN <<>>
                 ELSE (IF layers[i].type # "audio" THEN <<i>> ELSE <<>>)
                      \o Keep(i + 1)
  IN  Keep(1)

\* Mutant of renderFabricCanvas: a surface with nothing on it gives no buffer.
renderFabricCanvas_NothingWhenBare(c, canvas) ==
  IF canvas = <<>> THEN NoFrame ELSE <<"canvas", c, canvas>>

\* renderFabricCanvas: the pixels of the surface, always a buffer.
renderFabricCanvas(c, canvas) == <<"canvas", c, canvas>>

\* Mutant of ClipReadNextFrame: a sole layer's buffer goes on the surface
\* like any other.
ClipReadNextFrame_NoBypass(c, layers, time, gaps) ==
  LET vis == IF layers = <<>> THEN <<>>
             ELSE SelectSeq([i \in 1..Len(layers) |-> i],
                            LAMBDA i : layers[i].type # "audio")
      RECURSIVE Loop(_, _, _)
      Loop(k, canvas, read) ==
        IF k > Len(vis)
        THEN [frame |-> <<"canvas", c, canvas>>, rendered |-> TRUE,
              read |-> read]
        ELSE LET l    == vis[k]
                 p    == FrameSource_readNextFrame(layers[l], time).progress
                 on   == FrameSource_readNextFrame(layers[l], time).invoked
                 rgba == IF layers[l].type = "canvas" /\ l \notin gaps
                         THEN <<"layer", c, l, p[1], p[2]>> ELSE <<>>
             IN  IF ~on THEN Loop(k + 1, canvas, read)
                 ELSE IF rgba # <<>>
                 THEN Loop(k + 1, canvas \o << <<"image", rgba>> >>,
                           read \o <<l>>)
                 ELSE Loop(k + 1, canvas \o << <<"rect", c, l>> >>,
                           read \o <<l>>)
  IN  Loop(1, <<>>, <<>>)

\* createFrameSource(...).readNextFrame({ time }) of clip c: the surface is
\* created first, then the layer sources are read in order.  A layer's buffer
\* is returned as it is when the clip has one layer source; otherwise it goes
\* on the surface as an image, and the rendered surface is returned.
\* gaps holds the layers whose producer returns nothing on this read.  read
\* lists the layers whose producer was invoked.
ClipReadNextFrame(c, layers, time, gaps) ==
  LET vis == visualLayers(layers)
      RECURSIVE Loop(_, _, _)
      Loop(k, canvas, read) ==
        IF k > Len(vis)
        THEN [frame |-> renderFabricCanvas(c, canvas), rendered |-> TRUE,
              read |-> read]
        ELSE LET l    == vis[k]
                 call == FrameSource_readNextFrame(layers[l], time)
                 out  == Producer(c, l, layers[l].type, call.progress,
                                  l \in gaps)
             IN  IF ~call.invoked THEN Loop(k + 1, canvas, read)
                 ELSE IF out.rgba # NoFrame
                 THEN IF Len(vis) = 1
                      THEN [frame |-> out.rgba, rendered |-> FALSE,
                            read |-> read \o <<l>>]
                      ELSE Loop(k + 1, canvas \o << <<"image", out.rgba>> >>,
                                read \o <<l>>)
                 ELSE Loop(k + 1, canvas \o out.added, read \o <<l>>)
  IN  Loop(1, <<>>, <<>>)

\* The gaps one read of a clip can have: none, or one layer that is invoked
\* at this time and returns a buffer of its own.
GapChoices(layers, time) ==
  {{}} \cup {{l} : l \in {k \in 1..Len(layers) :
                            /\ layers[k].type # "audio"
                            /\ ReturnsBuffer(layers[k].type)
                            /\ FrameSource_readNextFrame(layers[k], time).invoked}}

\* ---------------------------------------------------------- compositor

\* easing(progress) > 0.5 for the three easing functions, progress in [0, 1]:
\*   linear(x) = x                                     > 0.5 iff x > 1/2
\*   easeInOutCubic(x) = x < 0.5 ? 4x^3 : 1-(2-2x)^3/2 > 0.5 iff x > 1/2
\*   easeOutExpo(x) = x === 1 ? 1 : 1 - 2^(-10x)       > 0.5 iff x > 1/10
EasedAboveHalf(easing, progress) ==
  CASE easing = "easeOutExpo"    -> RatLt(Tenth, progress)
    [] easing = "easeInOutCubic" ->
         IF RatLt(progress, Half)
         THEN \* 4 x^3 > 1/2
              8 * progress[1] * progress[1] * progress[1]
                > progress[2] * progress[2] * progress[2]
         ELSE \* 1 - (2 - 2x)^3 / 2 > 1/2, i.e. (2d - 2n)^3 < d^3
              (2 * progress[2] - 2 * progress[1])
                * (2 * progress[2] - 2 * progress[1])
                * (2 * progress[2] - 2 * progress[1])
                < progress[2] * progress[2] * progress[2]
    [] OTHER                     -> RatLt(Half, progress)

\* Mutant of runTransitionOnFrame: the cut switches at 0.5 already (>= 0.5).
runTransitionOnFrame_AtHalf(transition, fromFrame, toFrame, progress) ==
  IF transition.source = ""
  THEN IF EasedAboveHalf(transition.easing, progress)
          \/ (transition.easing # "easeOutExpo" /\ 2 * progress[1] = progress[2])
          \/ (transition.easing = "easeOutExpo" /\ 10 * progress[1] = progress[2])
       THEN toFrame ELSE fromFrame
  ELSE <<"blend", fromFrame, toFrame, transition.easing, progress[1], progress[2]>>

\* The function Transition.create returns, on a call that does not fail:
\* without a source the "to" or the "from" buffer itself, with one a new
\* buffer drawn by the effect at the eased progress.
runTransitionOnFrame(transition, fromFrame, toFrame, progress) ==
  IF transition.source = ""
  THEN IF EasedAboveHalf(transition.easing, progress) THEN toFrame ELSE fromFrame
  ELSE <<"blend", fromFrame, toFrame, transition.easing, progress[1], progress[2]>>

\* ----------------------------------------------------------- scheduler

VARIABLES
  clipsIn,               \* the clips as configured
  clips,                 \* the clips parseConfig returned
  fps,
  gapsLeft,              \* layer reads that may still come back empty
  pc,                    \* where the loop of Editly stands
  transitionFromClipId,
  fromClipFrameAt,
  toClipFrameAt,
  totalFramesWritten,
  frameSource1,          \* the clip id of the "from" source, or NoSource
  frameSource2,          \* the clip id of the "to" source, or NoSource
  frameSource1Data,
  outFrameData,
  lastWritten,           \* the buffer of the latest sink write
  prevWritten,           \* the buffer of the sink write before it
  openSources,           \* clip ids whose source is set up and not closed
  closeCalls,            \* closeCalls[id + 1]: close() calls on clip id's source
  canvasesCreated,       \* createFabricCanvas calls
  canvasesRendered,      \* renderFabricCanvas calls
  blendCalls,            \* runTransitionOnFrame calls
  warnings,              \* console.warn calls
  gapTick,               \* a layer read of the current tick came back empty
  keepTmp,               \* the keepTmp option
  tmpDir,                \* "absent", "present" or "removed"
  outProcess,            \* the encode process: how it stands, how it ended
  outProcessError,       \* the handler of outProcess.catch has run
  stdinEnded,            \* outProcess.stdin.end() was called
  thrown,                \* what threw the error on its way to the caller, or ""
  result,                \* "pending", "ok" (Editly resolved) or "error"
  mayThrow,              \* no call of the run has thrown yet
  closeThrows,           \* clip ids whose source throws on close()
  reasm,                 \* one rawVideoToFrames transform and the stream fed to it
  call,                  \* one FrameSource.readNextFrame(time, canvas) call
  comp                   \* one call of the function Transition.create returns

schedVars ==
  <<clipsIn, clips, fps, gapsLeft, pc, transitionFromClipId, fromClipFrameAt,
    toClipFrameAt, totalFramesWritten, frameSource1, frameSource2,
    frameSource1Data, outFrameData, lastWritten, prevWritten, openSources,
    closeCalls, canvasesCreated, canvasesRendered, blendCalls, warnings,
    gapTick, keepTmp, tmpDir, outProcess, outProcessError, stdinEnded, thrown,
    result, mayThrow, closeThrows>>

\* The variables of the run around the loop.
runVars ==
  <<keepTmp, tmpDir, outProcess, outProcessError, stdinEnded, thrown, result,
    mayThrow, closeThrows>>

\* What the other specifications run on.
others == <<reasm, call, comp>>

\* An undefined frameSource1 / frameSource2.
NoSource == -1

\* clips[id], ids counted from 0 as in the source.
HasClip(id) == id >= 0 /\ id < Len(clips)
Clip(id) == clips[id + 1]

\* Math.round(clip.duration * fps)
NumFrames(id) == Round(Clip(id).duration * fps, TicksPerSec)

\* Math.round(currentTransition.duration * fps), clip id's transition
TransitionNumFrames(id) ==
  Round(Clip(id).transition.duration * fps, HalfTicksPerSec)

\* Mutants of TransitionNumFramesSafe: the halving applied to the transition's
\* frame count as well, and to nothing.
TransitionNumFramesSafe_HalfAll(id) ==
  Min(IF id + 1 < Len(clips)
      THEN Min(Round(clips[id + 1].duration * fps, TicksPerSec),
               Round(clips[id + 2].duration * fps, TicksPerSec))
      ELSE Round(clips[id + 1].duration * fps, TicksPerSec),
      Round(clips[id + 1].transition.duration * fps, HalfTicksPerSec)) \div 2
TransitionNumFramesSafe_NoHalf(id) ==
  Min(IF id + 1 < Len(clips)
      THEN Min(Round(clips[id + 1].duration * fps, TicksPerSec),
               Round(clips[id + 2].duration * fps, TicksPerSec))
      ELSE Round(clips[id + 1].duration * fps, TicksPerSec),
      Round(clips[id + 1].transition.duration * fps, HalfTicksPerSec))

\* transitionNumFramesSafe of the pair (id, id + 1):
\*   Math.floor(Math.min(Math.min(fromClipNumFrames,
\*       toClipNumFrames != null ? toClipNumFrames : Number.MAX_SAFE_INTEGER) / 2,
\*     transitionNumFrames))
\* computed in half frames: min(m / 2, t) = min(m, 2 t) / 2.  Without a next
\* clip the inner minimum is fromClipNumFrames.
TransitionNumFramesSafe(id) ==
  LET inner == IF HasClip(id + 1) THEN Min(NumFrames(id), NumFrames(id + 1))
               ELSE NumFrames(id)
  IN  Min(inner, 2 * TransitionNumFrames(id)) \div 2

\* The constants of an iteration are computed at its head from the pair
\* transitionFromClipId names there.  The clip-boundary branch raises
\* transitionFromClipId and goes on, across its two awaits, with the
\* constants as they are: with those of the clip before.
iterationFromClipId ==
  IF pc \in {"advClose", "advSetup"}
  THEN transitionFromClipId - 1 ELSE transitionFromClipId

\* The loop's constants of one iteration.
fromClipNumFrames == NumFrames(iterationFromClipId)
toClipNumFrames == NumFrames(iterationFromClipId + 1)
currentTransition == Clip(iterationFromClipId).transition
transitionNumFrames == TransitionNumFrames(iterationFromClipId)
transitionNumFramesSafe == TransitionNumFramesSafe(iterationFromClipId)
transitionFrameAt ==
  fromClipFrameAt - (fromClipNumFrames - transitionNumFramesSafe)
\* Mutant of transitionLastFrameIndex: one frame early.
transitionLastFrameIndex_OneLess ==
  TransitionNumFramesSafe(iterationFromClipId) - 1
transitionLastFrameIndex == transitionNumFramesSafe

\* fromClipProgress = fromClipFrameAt / fromClipNumFrames;
\* fromClipTime = transitionFromClip.duration * fromClipProgress,
\* in ticks, as the double the two rounded operations give.
ClipTime(duration, frameAt, numFrames) ==
  <<duration * frameAt, numFrames, DoubleSide(duration, frameAt, numFrames)>>
fromClipTime ==
  ClipTime(Clip(iterationFromClipId).duration, fromClipFrameAt,
           fromClipNumFrames)
toClipTime ==
  ClipTime(Clip(iterationFromClipId + 1).duration, toClipFrameAt,
           toClipNumFrames)

\* Mutant of isInTransition: the window's start is not looked at.
isInTransition_AnyTick ==
  /\ frameSource2 # NoSource
  /\ transitionNumFramesSafe > 0

isInTransition ==
  /\ frameSource2 # NoSource
  /\ transitionNumFramesSafe > 0
  /\ transitionFrameAt >= 0

\* getTransitionToSource() with transitionFromClipId = id: the source of
\* clip id + 1, or undefined without such a clip.
getTransitionToSource(id) == IF HasClip(id + 1) THEN id + 1 ELSE NoSource

\* close() on the sources in ids.
Closed(ids) ==
  [i \in 1..Len(closeCalls) |->
     closeCalls[i] + (IF (i - 1) \in ids THEN 1 ELSE 0)]

\* Groups of variables an action leaves alone.
settings == <<clipsIn, clips, fps, keepTmp, closeThrows>>
counters == <<transitionFromClipId, fromClipFrameAt, toClipFrameAt,
              totalFramesWritten>>
buffers == <<frameSource1Data, outFrameData, lastWritten, prevWritten>>
tallies == <<gapsLeft, canvasesCreated, canvasesRendered, blendCalls, warnings,
             gapTick>>
sources == <<frameSource1, frameSource2, openSources, closeCalls>>
process == <<tmpDir, outProcess, outProcessError, stdinEnded>>

\* source.close() is called: the call is counted, the source no longer open.
CloseCalled(id) ==
  /\ closeCalls' = Closed({id})
  /\ openSources' = openSources \ {id}

\* Mutant of AdvanceBegin: the superseded "from" source is not closed.
AdvanceBegin_KeepsFrom ==
  /\ UNCHANGED others
  /\ pc = "loop"
  /\ ~outProcessError
  /\ transitionFrameAt >= transitionLastFrameIndex
  /\ HasClip(transitionFromClipId + 1)
  /\ transitionFromClipId' = transitionFromClipId + 1
  /\ pc' = "advClose"
  /\ UNCHANGED <<settings, fromClipFrameAt, toClipFrameAt, totalFramesWritten,
                 buffers, tallies, sources, process, thrown, result,
                 mayThrow>>

\* The loop's clip-boundary branch with a clip to go on with, up to its
\* first await: transitionFromClipId is raised and frameSource1.close()
\* called.
AdvanceBegin ==
  /\ UNCHANGED others
  /\ pc = "loop"
  /\ ~outProcessError
  /\ transitionFrameAt >= transitionLastFrameIndex
  /\ HasClip(transitionFromClipId + 1)
  /\ transitionFromClipId' = transitionFromClipId + 1
  /\ CloseCalled(frameSource1)
  /\ pc' = "advClose"
  /\ UNCHANGED <<settings, fromClipFrameAt, toClipFrameAt, totalFramesWritten,
                 buffers, tallies, frameSource1, frameSource2, process,
                 thrown, result, mayThrow>>

\* await frameSource1.close() returns: the "to" source is promoted and
\* getTransitionToSource() called.
AdvanceClosed ==
  /\ UNCHANGED others
  /\ pc = "advClose"
  /\ frameSource1 \notin closeThrows
  /\ frameSource1' = frameSource2
  /\ pc' = "advSetup"
  /\ UNCHANGED <<settings, counters, buffers, tallies, frameSource2,
                 openSources, closeCalls, process, thrown, result, mayThrow>>

\* await getTransitionToSource() returns the source of the next "to" clip,
\* or undefined without one; the counters are set for the new pair and the
\* loop continues.
AdvanceEnd ==
  /\ UNCHANGED others
  /\ pc = "advSetup"
  /\ frameSource2' = getTransitionToSource(transitionFromClipId)
  /\ openSources' = openSources \cup ({frameSource2'} \ {NoSource})
  /\ fromClipFrameAt' = transitionLastFrameIndex
  /\ toClipFrameAt' = 0
  /\ pc' = "loop"
  /\ UNCHANGED <<settings, transitionFromClipId, totalFramesWritten, buffers,
                 tallies, frameSource1, closeCalls, process, thrown, result,
                 mayThrow>>

\* The same branch after the last clip: the loop is left.
NoMoreClips ==
  /\ UNCHANGED others
  /\ UNCHANGED runVars
  /\ pc = "loop"
  /\ ~outProcessError
  /\ transitionFrameAt >= transitionLastFrameIndex
  /\ ~HasClip(transitionFromClipId + 1)
  /\ transitionFromClipId' = transitionFromClipId + 1
  /\ pc' = "end"
  /\ UNCHANGED <<clipsIn, clips, fps, gapsLeft, fromClipFrameAt, toClipFrameAt,
                 totalFramesWritten, frameSource1, frameSource2,
                 frameSource1Data, outFrameData, lastWritten, prevWritten,
                 openSources, closeCalls, canvasesCreated, canvasesRendered,
                 blendCalls, warnings, gapTick>>

\* The head of an iteration inside a clip, up to its first await:
\* frameSource1.readNextFrame({ time: fromClipTime }) is called and creates
\* its surface.
ReadFromCall ==
  /\ UNCHANGED others
  /\ pc = "loop"
  /\ ~outProcessError
  /\ transitionFrameAt < transitionLastFrameIndex
  /\ canvasesCreated' = canvasesCreated + 1
  /\ pc' = "readFrom"
  /\ UNCHANGED <<settings, counters, buffers, sources, process, gapsLeft,
                 canvasesRendered, blendCalls, warnings, gapTick, thrown,
                 result, mayThrow>>

\* await frameSource1.readNextFrame({ time: fromClipTime }) returns, and what
\* follows up to the next await: inside the blend window the call of
\* frameSource2.readNextFrame, which creates its surface, otherwise the call
\* of outProcess.stdin.write.
ReadFrom ==
  /\ UNCHANGED others
  /\ UNCHANGED runVars
  /\ pc = "readFrom"
  /\ \E time \in {fromClipTime} :
     \E g \in GapChoices(Clip(frameSource1).layers, time) :
       /\ g # {} => gapsLeft > 0
       /\ LET r == ClipReadNextFrame(frameSource1, Clip(frameSource1).layers,
                                     time, g)
              newFrameSource1Data == r.frame
              data == IF newFrameSource1Data # NoFrame
                      THEN newFrameSource1Data ELSE frameSource1Data
          IN  /\ frameSource1Data' = data
              /\ warnings' = warnings
                             + (IF newFrameSource1Data # NoFrame THEN 0 ELSE 1)
              /\ canvasesCreated' = canvasesCreated
                                    + (IF isInTransition THEN 1 ELSE 0)
              /\ canvasesRendered' = canvasesRendered
                                     + (IF r.rendered THEN 1 ELSE 0)
              /\ gapsLeft' = gapsLeft - Cardinality(g)
              /\ gapTick' = (g # {})
              /\ IF isInTransition
                 THEN pc' = "readTo" /\ UNCHANGED outFrameData
                 ELSE pc' = "write" /\ outFrameData' = data
  /\ UNCHANGED <<clipsIn, clips, fps, transitionFromClipId, fromClipFrameAt,
                 toClipFrameAt, totalFramesWritten, frameSource1, frameSource2,
                 lastWritten, prevWritten, openSources, closeCalls, blendCalls>>

\* await frameSource2.readNextFrame({ time: toClipTime }) returns; the
\* blend, and the call of outProcess.stdin.write.
ReadTo ==
  /\ UNCHANGED others
  /\ UNCHANGED runVars
  /\ pc = "readTo"
  /\ \E time \in {toClipTime} :
     \E g \in GapChoices(Clip(frameSource2).layers, time) :
       /\ g # {} => gapsLeft > 0
       /\ LET r == ClipReadNextFrame(frameSource2, Clip(frameSource2).layers,
                                     time, g)
              frameSource2Data == r.frame
              progress == <<transitionFrameAt, transitionNumFramesSafe>>
          IN  /\ IF frameSource2Data # NoFrame
                 THEN /\ outFrameData' =
                           runTransitionOnFrame(currentTransition,
                             frameSource1Data, frameSource2Data, progress)
                      /\ blendCalls' = blendCalls + 1
                      /\ UNCHANGED warnings
                 ELSE /\ outFrameData' = frameSource1Data
                      /\ warnings' = warnings + 1
                      /\ UNCHANGED blendCalls
              /\ UNCHANGED canvasesCreated
              /\ canvasesRendered' = canvasesRendered
                                     + (IF r.rendered THEN 1 ELSE 0)
              /\ gapsLeft' = gapsLeft - Cardinality(g)
              /\ gapTick' = (gapTick \/ g # {})
  /\ pc' = "write"
  /\ UNCHANGED <<clipsIn, clips, fps, transitionFromClipId, fromClipFrameAt,
                 toClipFrameAt, totalFramesWritten, frameSource1, frameSource2,
                 frameSource1Data, lastWritten, prevWritten, openSources,
                 closeCalls>>

\* Mutant of Write: fromClipFrameAt is not advanced.
Write_NoAdvance ==
  /\ UNCHANGED others
  /\ UNCHANGED runVars
  /\ pc = "write"
  /\ ~outProcessError
  /\ lastWritten' = outFrameData
  /\ prevWritten' = lastWritten
  /\ totalFramesWritten' = totalFramesWritten + 1
  /\ fromClipFrameAt' = fromClipFrameAt
  /\ toClipFrameAt' = toClipFrameAt + (IF isInTransition THEN 1 ELSE 0)
  /\ pc' = "loop"
  /\ UNCHANGED <<clipsIn, clips, fps, gapsLeft, transitionFromClipId,
                 frameSource1, frameSource2, frameSource1Data, outFrameData,
                 openSources, closeCalls, canvasesCreated, canvasesRendered,
                 blendCalls, warnings, gapTick>>

\* The callback of outProcess.stdin.write(outFrameData, r) has run and
\* outProcessError is not set: the counters advance.
Write ==
  /\ UNCHANGED others
  /\ UNCHANGED runVars
  /\ pc = "write"
  /\ ~outProcessError
  /\ lastWritten' = outFrameData
  /\ prevWritten' = lastWritten
  /\ totalFramesWritten' = totalFramesWritten + 1
  /\ fromClipFrameAt' = fromClipFrameAt + 1
  /\ toClipFrameAt' = toClipFrameAt + (IF isInTransition THEN 1 ELSE 0)
  /\ pc' = "loop"
  /\ UNCHANGED <<clipsIn, clips, fps, gapsLeft, transitionFromClipId,
                 frameSource1, frameSource2, frameSource1Data, outFrameData,
                 openSources, closeCalls, canvasesCreated, canvasesRendered,
                 blendCalls, warnings, gapTick>>

\* Where the run goes on after the finally block of the loop's try: to
\* await outProcess, or, with an error on its way, to the outer finally.
pcAfterTry == IF thrown = "" THEN "done" ELSE "finish"

\* After the loop: outProcess.stdin?.end().
EndInput ==
  /\ UNCHANGED others
  /\ pc = "end"
  /\ stdinEnded' = TRUE
  /\ pc' = "finally"
  /\ UNCHANGED <<settings, counters, buffers, tallies, sources, tmpDir,
                 outProcess, outProcessError, thrown, result, mayThrow>>

\* The finally block of the loop's try, up to its first await:
\*   if (frameSource1) await frameSource1.close();
\*   if (frameSource2) await frameSource2.close();
Finally ==
  /\ UNCHANGED others
  /\ pc = "finally"
  /\ IF frameSource1 # NoSource
     THEN CloseCalled(frameSource1) /\ pc' = "closing1"
     ELSE IF frameSource2 # NoSource
     THEN CloseCalled(frameSource2) /\ pc' = "closing2"
     ELSE UNCHANGED <<openSources, closeCalls>> /\ pc' = pcAfterTry
  /\ UNCHANGED <<settings, counters, buffers, tallies, frameSource1,
                 frameSource2, process, thrown, result, mayThrow>>

\* await frameSource1.close() of the finally block returns; frameSource2, if
\* set, is closed next.
FirstClosed ==
  /\ UNCHANGED others
  /\ pc = "closing1"
  /\ frameSource1 \notin closeThrows
  /\ IF frameSource2 # NoSource
     THEN CloseCalled(frameSource2) /\ pc' = "closing2"
     ELSE UNCHANGED <<openSources, closeCalls>> /\ pc' = pcAfterTry
  /\ UNCHANGED <<settings, counters, buffers, tallies, frameSource1,
                 frameSource2, process, thrown, result, mayThrow>>

\* ------------------------------------------------- the run around the loop

\* The encode process: not started, running, or ended with exit code 0
\* ("exit0"), with another exit code ("exit1") or by a signal ("signal").
\* killed: outProcess.kill() has sent it a signal.
\* unexpected: it ended before stdin.end() and not by outProcess.kill();
\* frame and writing: totalFramesWritten when it ended, and whether a write
\* was outstanding then.
NotStarted ==
  [status |-> "none", killed |-> FALSE, unexpected |-> FALSE, frame |-> 0,
   writing |-> FALSE]
Running == [NotStarted EXCEPT !.status = "running"]
Ended(status, unexpected) ==
  [outProcess EXCEPT !.status = status, !.unexpected = unexpected,
                     !.frame = totalFramesWritten, !.writing = pc = "write"]

\* Mutant of kill: no signal is sent.
kill_Noop(p) == p
\* outProcess?.kill(): a running process is sent a signal; the call returns
\* at once, the process ends later.
kill(p) ==
  IF p.status = "running" THEN [p EXCEPT !.killed = TRUE] ELSE p

\* The promise of outProcess rejects; execa's isTerminated; the exit code the
\* "exit" handler stored is 0.
Rejects(p) == p.status \in {"exit1", "signal"}
isTerminated(p) == p.status = "signal"
ExitCodeIsZero(p) == p.status = "exit0"

\* await fsExtra.mkdirp(tmpDir)
Mkdirp ==
  /\ UNCHANGED others
  /\ pc = "begin"
  /\ tmpDir' = "present"
  /\ pc' = "audio"
  /\ UNCHANGED <<settings, counters, buffers, tallies, sources, outProcess,
                 outProcessError, stdinEnded, thrown, result, mayThrow>>

\* await editAudio(...) returns; the size and fps checks pass.
EditAudio ==
  /\ UNCHANGED others
  /\ pc = "audio"
  /\ pc' = "start"
  /\ UNCHANGED <<settings, counters, buffers, tallies, sources, process,
                 thrown, result, mayThrow>>

\* await editAudio(...) throws (one of its ffmpeg runs fails).  The call is
\* outside every try: the error goes straight to the caller.
EditAudioThrows ==
  /\ UNCHANGED others
  /\ pc = "audio"
  /\ mayThrow
  /\ mayThrow' = FALSE
  /\ thrown' = "audio"
  /\ result' = "error"
  /\ pc' = "returned"
  /\ UNCHANGED <<settings, counters, buffers, tallies, sources, process>>

\* The head of the try, up to its first await: the encode process is started
\* and getTransitionFromSource() called.
StartProcess ==
  /\ UNCHANGED others
  /\ pc = "start"
  /\ outProcess' = Running
  /\ pc' = "setupFrom"
  /\ UNCHANGED <<settings, counters, buffers, tallies, sources, tmpDir,
                 outProcessError, stdinEnded, thrown, result, mayThrow>>

\* startFfmpegWriterProcess() throws: outProcess stays undefined.
StartProcessThrows ==
  /\ UNCHANGED others
  /\ pc = "start"
  /\ mayThrow
  /\ mayThrow' = FALSE
  /\ thrown' = "start"
  /\ pc' = "catch"
  /\ UNCHANGED <<settings, counters, buffers, tallies, sources, process,
                 result>>

\* frameSource1 = await getTransitionFromSource() returns the source of
\* clip 0; getTransitionToSource() is called.
SetupFrom ==
  /\ UNCHANGED others
  /\ pc = "setupFrom"
  /\ frameSource1' = 0
  /\ openSources' = openSources \cup {0}
  /\ pc' = "setupTo"
  /\ UNCHANGED <<settings, counters, buffers, tallies, frameSource2,
                 closeCalls, process, thrown, result, mayThrow>>

\* The set-up of the source of clip 0 throws: no source is set.
SetupFromThrows ==
  /\ UNCHANGED others
  /\ pc = "setupFrom"
  /\ mayThrow
  /\ mayThrow' = FALSE
  /\ thrown' = "setup"
  /\ pc' = "catch"
  /\ UNCHANGED <<settings, counters, buffers, tallies, sources, process,
                 result>>

\* frameSource2 = await getTransitionToSource() returns the source of clip
\* 1, or undefined without such a clip; the loop is entered.
SetupTo ==
  /\ UNCHANGED others
  /\ pc = "setupTo"
  /\ frameSource2' = getTransitionToSource(0)
  /\ openSources' = openSources \cup ({frameSource2'} \ {NoSource})
  /\ pc' = "loop"
  /\ UNCHANGED <<settings, counters, buffers, tallies, frameSource1,
                 closeCalls, process, thrown, result, mayThrow>>

\* The set-up of the source of clip 1 throws: the source of clip 0 is set.
SetupToThrows ==
  /\ UNCHANGED others
  /\ pc = "setupTo"
  /\ HasClip(1)
  /\ mayThrow
  /\ mayThrow' = FALSE
  /\ thrown' = "setup"
  /\ pc' = "catch"
  /\ UNCHANGED <<settings, counters, buffers, tallies, sources, process,
                 result>>

\* The loop's condition, while (!outProcessError), fails.
LoopExit ==
  /\ UNCHANGED others
  /\ pc = "loop"
  /\ outProcessError
  /\ pc' = "end"
  /\ UNCHANGED <<settings, counters, buffers, tallies, sources, process,
                 thrown, result, mayThrow>>

\* currentTransition.create({ width, height, channels }) at the head of an
\* iteration throws (GL() returned null).
CreateThrows ==
  /\ UNCHANGED others
  /\ pc = "loop"
  /\ ~outProcessError
  /\ mayThrow
  /\ mayThrow' = FALSE
  /\ thrown' = "create"
  /\ pc' = "catch"
  /\ UNCHANGED <<settings, counters, buffers, tallies, sources, process,
                 result>>

\* The write was issued, its callback has run and outProcessError is set:
\*   if (outProcessError) break;
WriteBreak ==
  /\ UNCHANGED others
  /\ pc = "write"
  /\ outProcessError
  /\ lastWritten' = outFrameData
  /\ prevWritten' = lastWritten
  /\ pc' = "end"
  /\ UNCHANGED <<settings, counters, frameSource1Data, outFrameData, tallies,
                 sources, process, thrown, result, mayThrow>>

\* await frameSource1.readNextFrame(...) throws: a producer threw.
ReadFromThrows ==
  /\ UNCHANGED others
  /\ pc = "readFrom"
  /\ mayThrow
  /\ mayThrow' = FALSE
  /\ thrown' = "read"
  /\ pc' = "catch"
  /\ UNCHANGED <<settings, counters, buffers, sources, process, tallies,
                 result>>

\* await frameSource2.readNextFrame(...) throws, in the same way.
ReadToThrows ==
  /\ UNCHANGED others
  /\ pc = "readTo"
  /\ mayThrow
  /\ mayThrow' = FALSE
  /\ thrown' = "read"
  /\ pc' = "catch"
  /\ UNCHANGED <<settings, counters, buffers, sources, process, tallies,
                 result>>

\* frameSource2 is read, then runTransitionOnFrame throws.  Only the effect
\* blend can: the cut returns one of its two arguments.
BlendThrows ==
  /\ UNCHANGED others
  /\ pc = "readTo"
  /\ currentTransition.source # ""
  /\ mayThrow
  /\ mayThrow' = FALSE
  /\ LET r == ClipReadNextFrame(frameSource2, Clip(frameSource2).layers,
                                toClipTime, {})
     IN  /\ r.frame # NoFrame
         /\ UNCHANGED canvasesCreated
         /\ canvasesRendered' = canvasesRendered + (IF r.rendered THEN 1 ELSE 0)
  /\ blendCalls' = blendCalls + 1
  /\ thrown' = "blend"
  /\ pc' = "catch"
  /\ UNCHANGED <<settings, counters, buffers, sources, gapsLeft, warnings,
                 gapTick, process, result>>

\* await frameSource1.close() of the clip-boundary branch throws:
\* transitionFromClipId is raised, the sources are not moved.
AdvanceCloseThrows ==
  /\ UNCHANGED others
  /\ pc = "advClose"
  /\ frameSource1 \in closeThrows
  /\ thrown' = "close"
  /\ pc' = "catch"
  /\ UNCHANGED <<settings, counters, buffers, tallies, sources, process,
                 result, mayThrow>>

\* await getTransitionToSource() of the clip-boundary branch throws: the
\* "to" source is promoted already and frameSource2 keeps it.
AdvanceSetupThrows ==
  /\ UNCHANGED others
  /\ pc = "advSetup"
  /\ HasClip(transitionFromClipId + 1)
  /\ mayThrow
  /\ mayThrow' = FALSE
  /\ thrown' = "setup"
  /\ pc' = "catch"
  /\ UNCHANGED <<settings, counters, buffers, tallies, sources, process,
                 result>>

\* Where the try stands while the encode process reads its input: at the
\* loop's head, or waiting for a source's set-up or close() or for a read or
\* a write.
AwaitsWhileEncoding ==
  {"setupFrom", "setupTo", "loop", "readFrom", "readTo", "write", "advClose",
   "advSetup"}

\* Where callbacks run: while Editly stands at an await (at the last one,
\* of fsExtra.remove, only without keepTmp), and after it has returned.
Awaits ==
  {"setupFrom", "setupTo", "readFrom", "readTo", "write", "advClose",
   "advSetup", "closing1", "closing2", "done"}
    \cup (IF keepTmp THEN {} ELSE {"finish"})
    \cup {"returned"}

\* The encode process ends while Editly waits, by itself: with exit code 0,
\* with another exit code, or killed by a signal.
EncoderExits ==
  /\ UNCHANGED others
  /\ pc \in AwaitsWhileEncoding
  /\ outProcess.status = "running"
  /\ \E status \in {"exit0", "exit1", "signal"} :
       outProcess' = Ended(status, TRUE)
  /\ UNCHANGED <<settings, counters, buffers, tallies, sources, pc, tmpDir,
                 outProcessError, stdinEnded, thrown, result, mayThrow>>

\* The encode process ends after outProcess.stdin.end(): it has read its
\* whole input and ends with exit code 0, or it ends by itself with another
\* exit code or killed by a signal.
EncoderFinishes ==
  /\ UNCHANGED others
  /\ stdinEnded
  /\ outProcess.status = "running"
  /\ ~outProcess.killed
  /\ \E status \in {"exit0", "exit1", "signal"} :
       outProcess' = Ended(status, status # "exit0")
  /\ UNCHANGED <<settings, counters, buffers, tallies, sources, pc, tmpDir,
                 outProcessError, stdinEnded, thrown, result, mayThrow>>

\* The signal of outProcess.kill() ends the encode process, some time after
\* the call, be it after Editly has returned.
EncoderKilled ==
  /\ UNCHANGED others
  /\ outProcess.status = "running"
  /\ outProcess.killed
  /\ outProcess' = Ended("signal", FALSE)
  /\ UNCHANGED <<settings, counters, buffers, tallies, sources, pc, tmpDir,
                 outProcessError, stdinEnded, thrown, result, mayThrow>>

\* outProcess.catch((err) => { outProcessError = err; }) runs, some time
\* after the process has ended, while Editly is at an await or after it has
\* returned; the source does not order it with the callbacks of the writes.
OutProcessCatch ==
  /\ UNCHANGED others
  /\ Rejects(outProcess)
  /\ ~outProcessError
  /\ pc \in Awaits
  /\ outProcessError' = TRUE
  /\ UNCHANGED <<settings, counters, buffers, tallies, sources, pc, tmpDir,
                 outProcess, stdinEnded, thrown, result, mayThrow>>

\* catch (err) { outProcess?.kill(); throw err; }
Catch ==
  /\ UNCHANGED others
  /\ pc = "catch"
  /\ outProcess' = kill(outProcess)
  /\ pc' = "finally"
  /\ UNCHANGED <<settings, counters, buffers, tallies, sources, tmpDir,
                 outProcessError, stdinEnded, thrown, result, mayThrow>>

\* await frameSource1.close() of the finally block throws: the block is
\* left, its error replaces the one on its way, if any.
FirstCloseThrows ==
  /\ UNCHANGED others
  /\ pc = "closing1"
  /\ frameSource1 \in closeThrows
  /\ thrown' = "close"
  /\ pc' = "finish"
  /\ UNCHANGED <<settings, counters, buffers, tallies, sources, process,
                 result, mayThrow>>

\* await frameSource2.close() of the finally block returns.
SecondClosed ==
  /\ UNCHANGED others
  /\ pc = "closing2"
  /\ frameSource2 \notin closeThrows
  /\ pc' = pcAfterTry
  /\ UNCHANGED <<settings, counters, buffers, tallies, sources, process,
                 thrown, result, mayThrow>>

\* await frameSource2.close() of the finally block throws.
SecondCloseThrows ==
  /\ UNCHANGED others
  /\ pc = "closing2"
  /\ frameSource2 \in closeThrows
  /\ thrown' = "close"
  /\ pc' = "finish"
  /\ UNCHANGED <<settings, counters, buffers, tallies, sources, process,
                 result, mayThrow>>

\* try { await outProcess } catch (err) {
\*   if (outProcessExitCode !== 0 && !err.isTerminated) throw err; }
\* The handler of outProcess.catch was attached to the promise first, so it
\* has run when the await throws.
AwaitOutProcess ==
  /\ UNCHANGED others
  /\ pc = "done"
  /\ outProcess.status # "running"
  /\ Rejects(outProcess) => outProcessError
  /\ thrown' = (IF /\ Rejects(outProcess)
                   /\ ~ExitCodeIsZero(outProcess)
                   /\ ~isTerminated(outProcess)
                THEN "sink" ELSE "")
  /\ pc' = "finish"
  /\ UNCHANGED <<settings, counters, buffers, tallies, sources, process,
                 result, mayThrow>>

\* finally { if (!keepTmp) await fsExtra.remove(tmpDir); }, then Editly
\* returns or the error reaches the caller.
RemoveTmp ==
  /\ UNCHANGED others
  /\ pc = "finish"
  /\ tmpDir' = (IF keepTmp THEN tmpDir ELSE "removed")
  /\ result' = (IF thrown = "" THEN "ok" ELSE "error")
  /\ pc' = "returned"
  /\ UNCHANGED <<settings, counters, buffers, tallies, sources, outProcess,
                 outProcessError, stdinEnded, thrown, mayThrow>>

\* ------------------------------------------------------- configurations

\* One clip as configured.
ClipOption(duration, transition, layers) ==
  [duration |-> duration, transition |-> transition, layers |-> layers]

\* The layers of a clip of duration d (even): one layer returning its buffer;
\* one layer drawing on the surface; a drawn background under a buffer layer
\* that starts at half time; two buffer layers that hand over at half time;
\* an audio layer beside one buffer layer; one buffer layer that starts at
\* half time, no layer being active before.
SoleLayer == << LayerOption("canvas", 0, 0) >>
Layouts(d) ==
  { SoleLayer,
    << LayerOption("fill-color", 0, 0) >>,
    << LayerOption("fill-color", 0, 0), LayerOption("canvas", d \div 2, 0) >>,
    << LayerOption("canvas", 0, d \div 2), LayerOption("canvas", d \div 2, 0) >>,
    << LayerOption("audio", 0, 0), LayerOption("canvas", 0, 0) >>,
    << LayerOption("canvas", d \div 2, 0) >> }

\* The timing family: up to MaxClips clips of 2, 4, .. ticks at 1, 3 or 10
\* frames a second; every clip but the last has a null transition (a cut) or
\* an effect of 1 or 3 ticks (at most, and more than, half of a clip).
ClipDurations == {2 * h : h \in 1..MaxHalfDur}
TransitionDurations == {1, 3}
FpsSet == {1, 3, 10}
TimingTransitions ==
  {NullTransition}
    \cup {TransitionOption("fade", t, "") : t \in TransitionDurations}
TimingClips ==
  {ClipOption(d, t, SoleLayer) : d \in ClipDurations, t \in TimingTransitions}
TimingConfigs ==
  {[clips |-> cs, fps |-> f, gaps |-> 0] :
     cs \in {s \in UNION {[1..n -> TimingClips] : n \in 1..MaxClips} :
               s[Len(s)].transition = NullTransition},
     f \in FpsSet}

\* The layout family: one or two clips of 2 s at 2 frames a second, of every
\* layout, joined by a cut ("dummy") or an effect of 1 s; up to MaxGaps layer
\* reads come back empty.
LayoutTransitions ==
  { TransitionOption("dummy", TicksPerSec, ""),
    TransitionOption("dummy", TicksPerSec, "easeOutExpo"),
    TransitionOption("directional-left", TicksPerSec, "") }
LayoutClips ==
  {ClipOption(2 * TicksPerSec, t, l) :
     t \in LayoutTransitions, l \in Layouts(2 * TicksPerSec)}
LayoutConfigs ==
  {[clips |-> cs, fps |-> 2, gaps |-> g] :
     cs \in UNION {[1..n -> LayoutClips] : n \in 1..2}, g \in 0..MaxGaps}

\* Scenario A: clips of 2 s and 3 s at 10 fps, the first with an effect of 1 s.
ScenarioA ==
  [clips |-> << ClipOption(2 * TicksPerSec,
                           TransitionOption("fade", TicksPerSec, ""), SoleLayer),
                ClipOption(3 * TicksPerSec, NoTransition, SoleLayer) >>,
   fps |-> 10, gaps |-> 0]

\* Scenario B: one clip of 1 s at 24 fps, one layer, no transition.
ScenarioB ==
  [clips |-> << ClipOption(TicksPerSec, NoTransition, SoleLayer) >>,
   fps |-> 24, gaps |-> 0]

\* Scenario C: one clip of 1 s at 10 fps whose layer returns nothing once.
ScenarioC ==
  [clips |-> << ClipOption(TicksPerSec, NoTransition, SoleLayer) >>,
   fps |-> 10, gaps |-> 1]

\* Scenario D: clips of 1 s and 1 s at 4 fps joined by an effect; frames 2 and
\* 3 of the output are blended, both sources are open from the start.
ScenarioD ==
  [clips |-> << ClipOption(TicksPerSec,
                           TransitionOption("fade", TicksPerSec, ""), SoleLayer),
                ClipOption(TicksPerSec, NoTransition, SoleLayer) >>,
   fps |-> 4, gaps |-> 0]

\* Three clips of 1 s at 2 fps, joined by a cut and by an effect whose name
\* is not written as the library writes it.
ThreeClips ==
  [clips |-> << ClipOption(TicksPerSec,
                           TransitionOption("dummy", TicksPerSec, ""), SoleLayer),
                ClipOption(TicksPerSec,
                           TransitionOption("Fade", TicksPerSec, ""), SoleLayer),
                ClipOption(TicksPerSec, NoTransition, SoleLayer) >>,
   fps |-> 2, gaps |-> 0]

\* One clip of 1 s at 2 fps.
OneClip ==
  [clips |-> << ClipOption(TicksPerSec, NoTransition, SoleLayer) >>,
   fps |-> 2, gaps |-> 0]

\* A clip too short for a frame (a quarter of a second at 1 fps rounds to no
\* frame) before a clip of 1 s.
ShortClip ==
  [clips |-> << ClipOption(2, NullTransition, SoleLayer),
                ClipOption(TicksPerSec, NoTransition, SoleLayer) >>,
   fps |-> 1, gaps |-> 0]

\* Clips of 1 s and 1 s at 4 fps without a "transition" key: the default
\* transition, a random effect of half a second, joins them.
DefaultTransition ==
  [clips |-> << ClipOption(TicksPerSec, NoTransition, SoleLayer),
                ClipOption(TicksPerSec, NoTransition, SoleLayer) >>,
   fps |-> 4, gaps |-> 0]

\* A clip without a duration (the default's 4 s) whose transition has a
\* duration and no name, and a clip of 1 s, at 2 fps.
DefaultDuration ==
  [clips |-> << ClipOption(0, TransitionOption("", 2, ""), SoleLayer),
                ClipOption(TicksPerSec, NoTransition, SoleLayer) >>,
   fps |-> 2, gaps |-> 0]

\* One clip of 22 ticks at 8 fps whose second layer starts at 15 ticks: at
\* frame 15 the time, 22 * (15 / 22) ticks as a double, is below 15.
RoundedBelow ==
  [clips |-> << ClipOption(22, NoTransition,
                  << LayerOption("fill-color", 0, 0),
                     LayerOption("canvas", 15, 0) >>) >>,
   fps |-> 8, gaps |-> 0]

\* One clip of 38 ticks at 8 fps whose second layer stops at 21 ticks: at
\* frame 21 the time, 38 * (21 / 38) ticks as a double, is above 21.
RoundedAbove ==
  [clips |-> << ClipOption(38, NoTransition,
                  << LayerOption("fill-color", 0, 0),
                     LayerOption("canvas", 0, 21) >>) >>,
   fps |-> 8, gaps |-> 0]

\* Two clips of 25 ticks at 8 fps joined by an effect of 16 ticks, cut down
\* to 12.5 ticks; the second layer of the second clip stops at 7 ticks: at
\* frame 7 of the second clip, inside the blend, the time, 25 * (7 / 25)
\* ticks as a double, is above 7.
RoundedInBlend ==
  [clips |-> << ClipOption(25, TransitionOption("fade", 16, ""), SoleLayer),
                ClipOption(25, NoTransition,
                  << LayerOption("fill-color", 0, 0),
                     LayerOption("canvas", 0, 7) >>) >>,
   fps |-> 8, gaps |-> 0]

\* Clips of 4 s and 3 ticks at 8 fps joined by an effect of 1 s: the half
\* of the shorter next clip, 1.5 ticks, is what is left of the effect.
OddNextClip ==
  [clips |-> << ClipOption(4 * TicksPerSec,
                           TransitionOption("fade", TicksPerSec, ""), SoleLayer),
                ClipOption(3, NoTransition, SoleLayer) >>,
   fps |-> 8, gaps |-> 0]

\* The configurations of the runs followed to their end.
FairConfigs ==
  {ScenarioA, ScenarioB, ScenarioC, ScenarioD, ThreeClips, OneClip, ShortClip}

\* The configurations of the runs with failures.
RunConfigs == {ScenarioD, ThreeClips, OneClip}

Configs ==
  {c \in TimingConfigs \cup LayoutConfigs
            \cup {ScenarioA, ScenarioB, ScenarioC, DefaultTransition,
                  DefaultDuration, ThreeClips, RoundedBelow, RoundedAbove,
                  RoundedInBlend, OddNextClip} :
     \A r \in RandomDraws(Configuration(c.clips)) : EditlyAccepts(c.clips, r)}

\* --------------------------------------------------- chunk reassembler

\* The longest stream, and the widest frame, of the reassembler's runs.
MaxStreamLen == 6
MaxWidth == 3

\* Stream bytes; 0 is kept for the fill of a new Uint8Array.
Bytes == {1, 2}

\* new Uint8Array(frameByteSize)
Uint8Array(n) == [i \in 1..n |-> 0]

\* const frameByteSize = width * height * channels
frameByteSize(width, height, channels) == width * height * channels

\* Mutant of BufferSet: the slice is written at the start of the buffer.
BufferSet_AtStart(buffer, chunk, startAt, endAt, bytesRead) ==
  [i \in 1..Len(buffer) |->
     IF i <= endAt - startAt THEN chunk[startAt + i] ELSE buffer[i]]

\* buffer.set(chunk.slice(startAt, endAt), bytesRead): positions are counted
\* from 0 in the source, from 1 in the sequences here.
BufferSet(buffer, chunk, startAt, endAt, bytesRead) ==
  [i \in 1..Len(buffer) |->
     IF i > bytesRead /\ i <= bytesRead + (endAt - startAt)
     THEN chunk[startAt + (i - bytesRead)]
     ELSE buffer[i]]

\* Mutant of transform: the bytes already in the buffer are not taken off
\* what is read of the chunk (endAt = min(startAt + frameByteSize, length)).
transform_WholeFrameEachTime(r, chunk) ==
  LET RECURSIVE While(_, _, _, _)
      While(startAt, buffer, bytesRead, pushed) ==
        IF ~(startAt < Len(chunk))
        THEN [r EXCEPT !.buffer = buffer, !.bytesRead = bytesRead,
                       !.pushed = pushed]
        ELSE LET endAt == Min(startAt + r.size, Len(chunk))
                 bytesToRead == endAt - startAt
                 filled == [i \in 1..Len(buffer) |->
                              IF i > bytesRead /\ i <= bytesRead + bytesToRead
                              THEN chunk[startAt + (i - bytesRead)]
                              ELSE buffer[i]]
                 bytesRead2 == (bytesRead + bytesToRead) % r.size
             IN  IF bytesRead2 = 0
                 THEN While(endAt, [i \in 1..r.size |-> 0], bytesRead2,
                            Append(pushed, filled))
                 ELSE While(endAt, filled, bytesRead2, pushed)
  IN  While(0, r.buffer, r.bytesRead, r.pushed)

\* transform(chunk, _, callback): the while loop over one chunk, from the
\* transform's state r (size, buffer, bytesRead, pushed) to its next state.
transform(r, chunk) ==
  LET RECURSIVE While(_, _, _, _)
      While(startAt, buffer, bytesRead, pushed) ==
        IF ~(startAt < Len(chunk))
        THEN [r EXCEPT !.buffer = buffer, !.bytesRead = bytesRead,
                       !.pushed = pushed]
        ELSE LET endAt == Min(startAt + r.size - bytesRead, Len(chunk))
                 bytesToRead == endAt - startAt
                 filled == BufferSet(buffer, chunk, startAt, endAt, bytesRead)
                 bytesRead2 == (bytesRead + bytesToRead) % r.size
             IN  IF bytesRead2 = 0
                 THEN While(endAt, Uint8Array(r.size), bytesRead2,
                            Append(pushed, filled))
                 ELSE While(endAt, filled, bytesRead2, pushed)
  IN  While(0, r.buffer, r.bytesRead, r.pushed)

Streams == UNION {[1..n -> Bytes] : n \in 0..MaxStreamLen}

\* rawVideoToFrames({ width, height, channels }) before its first chunk, and
\* the stream its input will carry.  Pixels of one byte keep the streams short;
\* the transform reads width, height and channels only in their product.
ReasmInit ==
  \E stream \in Streams, width \in 1..MaxWidth :
    reasm = [ stream    |-> stream,
              fed       |-> 0,
              ended     |-> FALSE,
              size      |-> frameByteSize(width, 1, 1),
              buffer    |-> Uint8Array(frameByteSize(width, 1, 1)),
              bytesRead |-> 0,
              pushed    |-> <<>>,
              midFrame  |-> FALSE,
              multi     |-> FALSE ]

\* The next n bytes of the stream arrive as one chunk.  midFrame and multi
\* remember that a chunk ended inside a frame, and that one chunk completed
\* two frames or more.
Feed ==
  /\ UNCHANGED <<schedVars, call, comp>>
  /\ ~reasm.ended
  /\ \E n \in 0..(Len(reasm.stream) - reasm.fed) :
       LET next == transform(reasm,
                     SubSeq(reasm.stream, reasm.fed + 1, reasm.fed + n))
       IN  reasm' = [next EXCEPT
             !.fed = reasm.fed + n,
             !.midFrame = reasm.midFrame \/ (reasm.fed + n) % reasm.size # 0,
             !.multi = reasm.multi \/ Len(next.pushed) >= Len(reasm.pushed) + 2]

\* The stream ends; the transform has no flush, nothing more is pushed.
EndOfStream ==
  /\ UNCHANGED <<schedVars, call, comp>>
  /\ ~reasm.ended
  /\ reasm.fed = Len(reasm.stream)
  /\ reasm' = [reasm EXCEPT !.ended = TRUE]

ReasmIdle == [ended |-> TRUE]

\* ------------------------------------------------- one layer's time window

\* The latest layer start and the longest layer of the calls, in ticks, and
\* the latest time asked for.
MaxStart == 2
MaxLayerDuration == 3
MaxTime == 6

\* Times are whole or come in halves or thirds of a tick, or are the
\* doubles next to these.
TimeDenominators == {1, 2, 3}

CallInit ==
  \E start \in 0..MaxStart, layerDuration \in 1..MaxLayerDuration,
     d \in TimeDenominators, side \in {-1, 0, 1} :
    \E n \in 0..(MaxTime * d) :
      call = [ layer |-> [type |-> "canvas", start |-> start,
                          layerDuration |-> layerDuration],
               time |-> <<n, d, side>>,
               state |-> "called",
               invocations |-> 0,
               progress |-> <<0, 1>>,
               result |-> NoFrame ]

\* The call runs up to its await: outside the window it returns nothing at
\* once; inside, the producer is invoked with the progress and the call waits
\* for it ("pending").
ReadNextFrame ==
  /\ UNCHANGED <<schedVars, reasm, comp>>
  /\ call.state = "called"
  /\ LET r == FrameSource_readNextFrame(call.layer, call.time)
     IN  call' = [call EXCEPT
           !.state = IF r.invoked THEN "pending" ELSE "returned",
           !.invocations = IF r.invoked THEN 1 ELSE 0,
           !.progress = r.progress]

\* await this.implementation.readNextFrame(...) returns: the call returns
\* what the producer returned.
ProducerReturns ==
  /\ UNCHANGED <<schedVars, reasm, comp>>
  /\ call.state = "pending"
  /\ call' = [call EXCEPT
       !.state = "returned",
       !.result = Producer(0, 1, call.layer.type, call.progress, FALSE).rgba]

CallIdle == [state |-> "idle"]

\* ------------------------------------------------ one compositor call

\* The longest blend window of the calls: progress is k / s, s up to this.
MaxBlendFrames == 10

\* Transitions without a source (cut) and with one (effect blend).
CompositorOptions ==
  {NoTransition}
    \cup {TransitionOption("dummy", 1, e) :
            e \in {"", "linear", "easeOutExpo", "easeInOutCubic", "bounce"}}
    \cup {TransitionOption("", 0, "easeOutExpo"),
          TransitionOption("fade", 1, ""),
          TransitionOption("Fade", 1, ""),
          TransitionOption("directional-left", 1, "")}

CompInit ==
  \E o \in CompositorOptions, s \in 1..MaxBlendFrames :
    \E k \in 0..s :
      comp = [ transition |-> Transition(o, FALSE, ""),
               fromFrame |-> <<"layer", 0, 1, k, s>>,
               toFrame |-> <<"layer", 1, 1, k, s>>,
               progress |-> <<k, s>>,
               state |-> "called",
               out |-> NoFrame ]

RunTransition ==
  /\ UNCHANGED <<schedVars, reasm, call>>
  /\ comp.state = "called"
  /\ comp' = [comp EXCEPT
       !.state = "returned",
       !.out = runTransitionOnFrame(comp.transition, comp.fromFrame,
                                    comp.toFrame, comp.progress)]

CompIdle == [state |-> "idle"]

\* ------------------------------------- the GPU resources of effect blends

\* The calls of one run that are followed.
MaxBlendCalls == 3

\* The statements of an effect blend that acquire, use or release GPU
\* resources, in the order of the source, createBuffer before the try and
\* the others in it; each may throw.
BlendSteps ==
  << "createBuffer", "createTransition", "clear", "textureFrom", "textureTo",
     "bind", "draw", "disposeFrom", "disposeTo", "readPixels" >>

\* The statements of the finally block; each may throw.
FinallySteps == << "disposeBuffer", "disposeTransition" >>

\* What a statement that does not throw does to the live resources of the
\* call: a resource is <<name, call>>.
AfterStep(step, live, n) ==
  CASE step = "createBuffer"     -> live \cup {<<"buffer", n>>}
    [] step = "createTransition" -> live \cup {<<"transition", n>>}
    [] step = "textureFrom"      -> live \cup {<<"textureFrom", n>>}
    [] step = "textureTo"        -> live \cup {<<"textureTo", n>>}
    [] step = "disposeFrom"      -> live \ {<<"textureFrom", n>>}
    [] step = "disposeTo"        -> live \ {<<"textureTo", n>>}
    [] OTHER                     -> live

\* finally { buffer.dispose(); if (transition) transition.dispose(); },
\* one statement of it.
AfterFinally(step, live, n) ==
  IF step = "disposeBuffer" THEN live \ {<<"buffer", n>>}
  ELSE live \ {<<"transition", n>>}

\* Between two calls; live: the GPU resources acquired and not released.
GpuInit ==
  comp = [ state |-> "idle", calls |-> 0, at |-> 1, failAt |-> 0,
           failFinally |-> 0, live |-> {}, threw |-> FALSE ]

\* The function Transition.create returned is called with a source (an
\* effect); failAt is the statement that will throw and failFinally the
\* statement of the finally block that will, 0 for none.
BlendCall ==
  /\ UNCHANGED <<schedVars, reasm, call>>
  /\ comp.state = "idle"
  /\ comp.calls < MaxBlendCalls
  /\ \E f \in 0..Len(BlendSteps), g \in 0..Len(FinallySteps) :
       comp' = [comp EXCEPT !.state = "running", !.calls = comp.calls + 1,
                            !.at = 1, !.failAt = f, !.failFinally = g,
                            !.threw = FALSE]

\* The next statement of the call runs.  createBuffer is before the try: when
\* it throws the call is over.  A later statement that throws, and the return
\* after readPixels, lead to the finally block.
BlendStep ==
  /\ UNCHANGED <<schedVars, reasm, call>>
  /\ comp.state = "running"
  /\ IF comp.at = comp.failAt
     THEN comp' = [comp EXCEPT !.threw = TRUE, !.at = 1,
                     !.state = IF comp.at = 1 THEN "idle" ELSE "finally"]
     ELSE comp' = [comp EXCEPT
                     !.live = AfterStep(BlendSteps[comp.at], comp.live, comp.calls),
                     !.at = IF comp.at = Len(BlendSteps) THEN 1 ELSE comp.at + 1,
                     !.state = IF comp.at = Len(BlendSteps)
                               THEN "finally" ELSE "running"]

\* The next statement of the finally block runs; transition.dispose() is
\* skipped when createTransition did not return.  A statement that throws
\* ends the block; after the last one the call returns or throws.
BlendFinally ==
  /\ UNCHANGED <<schedVars, reasm, call>>
  /\ comp.state = "finally"
  /\ LET step == FinallySteps[comp.at]
         skipped == /\ step = "disposeTransition"
                    /\ <<"transition", comp.calls>> \notin comp.live
     IN  IF ~skipped /\ comp.at = comp.failFinally
         THEN comp' = [comp EXCEPT !.threw = TRUE, !.at = 1, !.state = "idle"]
         ELSE comp' = [comp EXCEPT
                 !.live = AfterFinally(step, comp.live, comp.calls),
                 !.at = IF comp.at = Len(FinallySteps) THEN 1 ELSE comp.at + 1,
                 !.state = IF comp.at = Len(FinallySteps)
                           THEN "idle" ELSE "finally"]

\* -------------------------------------------------------- specifications

vars == <<schedVars, reasm, call, comp>>

\* The state when the loop is entered: the configuration is parsed, the
\* sources of clip 0 and, if there is one, clip 1 are set up.
LoopEntry(c, r) ==
    /\ clipsIn = c.clips
    /\ clips = EditlyClips(c.clips, r)
    /\ fps = c.fps
    /\ gapsLeft = c.gaps
    /\ pc = "loop"
    /\ transitionFromClipId = 0
    /\ fromClipFrameAt = 0
    /\ toClipFrameAt = 0
    /\ totalFramesWritten = 0
    /\ frameSource1 = 0
    /\ frameSource2 = (IF Len(c.clips) > 1 THEN 1 ELSE NoSource)
    /\ frameSource1Data = NoFrame
    /\ outFrameData = NoFrame
    /\ lastWritten = NoFrame
    /\ prevWritten = NoFrame
    /\ openSources = {0} \cup (IF Len(c.clips) > 1 THEN {1} ELSE {})
    /\ closeCalls = [i \in 1..Len(c.clips) |-> 0]
    /\ canvasesCreated = 0
    /\ canvasesRendered = 0
    /\ blendCalls = 0
    /\ warnings = 0
    /\ gapTick = FALSE
    /\ keepTmp = FALSE
    /\ tmpDir = "present"
    /\ outProcess = Running
    /\ outProcessError = FALSE
    /\ stdinEnded = FALSE
    /\ thrown = ""
    /\ result = "pending"
    /\ mayThrow = FALSE
    /\ closeThrows = {}
    /\ reasm = ReasmIdle
    /\ call = CallIdle
    /\ comp = CompIdle

Init ==
  \E c \in Configs :
    \E r \in RandomDraws(Configuration(c.clips)) : LoopEntry(c, r)

Next ==
  \/ AdvanceBegin
  \/ AdvanceClosed
  \/ AdvanceEnd
  \/ NoMoreClips
  \/ ReadFromCall
  \/ ReadFrom
  \/ ReadTo
  \/ Write
  \/ EndInput
  \/ Finally
  \/ FirstClosed

\* The run of Editly's loop over every configuration.
Spec == Init /\ [][Next]_vars

\* The same runs when every read and every write completes: the loop is an
\* async function whose awaits all settle, so a step that can be taken is.
InitFair ==
  \E c \in FairConfigs :
    \E r \in RandomDraws(Configuration(c.clips)) : LoopEntry(c, r)
SpecFair == InitFair /\ [][Next]_vars /\ WF_vars(Next)

\* The scheduler's variables where no run is modelled.
SchedIdle ==
  /\ clipsIn = <<>> /\ clips = <<>> /\ fps = 0 /\ gapsLeft = 0
  /\ pc = "idle" /\ transitionFromClipId = 0 /\ fromClipFrameAt = 0
  /\ toClipFrameAt = 0 /\ totalFramesWritten = 0
  /\ frameSource1 = NoSource /\ frameSource2 = NoSource
  /\ frameSource1Data = NoFrame /\ outFrameData = NoFrame
  /\ lastWritten = NoFrame /\ prevWritten = NoFrame
  /\ openSources = {} /\ closeCalls = <<>>
  /\ canvasesCreated = 0 /\ canvasesRendered = 0 /\ blendCalls = 0
  /\ warnings = 0 /\ gapTick = FALSE
  /\ keepTmp = FALSE /\ tmpDir = "absent" /\ outProcess = NotStarted
  /\ outProcessError = FALSE /\ stdinEnded = FALSE /\ thrown = ""
  /\ result = "pending" /\ mayThrow = FALSE /\ closeThrows = {}

\* Editly from the creation of the temporary directory to its return, over
\* the configurations of RunConfigs: any one call may throw, the source of any
\* one clip may throw on close(), and the encode process may end at any time.
InitRun ==
  \E c \in RunConfigs, k \in BOOLEAN :
    \E ct \in {{}} \cup {{i} : i \in 0..(Len(c.clips) - 1)},
       r \in RandomDraws(Configuration(c.clips)) :
      /\ clipsIn = c.clips
      /\ clips = EditlyClips(c.clips, r)
      /\ fps = c.fps
      /\ gapsLeft = c.gaps
      /\ pc = "begin"
      /\ transitionFromClipId = 0
      /\ fromClipFrameAt = 0
      /\ toClipFrameAt = 0
      /\ totalFramesWritten = 0
      /\ frameSource1 = NoSource
      /\ frameSource2 = NoSource
      /\ frameSource1Data = NoFrame
      /\ outFrameData = NoFrame
      /\ lastWritten = NoFrame
      /\ prevWritten = NoFrame
      /\ openSources = {}
      /\ closeCalls = [i \in 1..Len(c.clips) |-> 0]
      /\ canvasesCreated = 0
      /\ canvasesRendered = 0
      /\ blendCalls = 0
      /\ warnings = 0
      /\ gapTick = FALSE
      /\ keepTmp = k
      /\ tmpDir = "absent"
      /\ outProcess = NotStarted
      /\ outProcessError = FALSE
      /\ stdinEnded = FALSE
      /\ thrown = ""
      /\ result = "pending"
      /\ mayThrow = TRUE
      /\ closeThrows = ct
      /\ reasm = ReasmIdle
      /\ call = CallIdle
      /\ comp = CompIdle

NextRun ==
  \/ Mkdirp
  \/ EditAudio
  \/ EditAudioThrows
  \/ StartProcess
  \/ StartProcessThrows
  \/ SetupFrom
  \/ SetupFromThrows
  \/ SetupTo
  \/ SetupToThrows
  \/ AdvanceBegin
  \/ AdvanceClosed
  \/ AdvanceEnd
  \/ NoMoreClips
  \/ ReadFromCall
  \/ ReadFrom
  \/ ReadTo
  \/ Write
  \/ LoopExit
  \/ CreateThrows
  \/ WriteBreak
  \/ ReadFromThrows
  \/ ReadToThrows
  \/ BlendThrows
  \/ AdvanceCloseThrows
  \/ AdvanceSetupThrows
  \/ EncoderExits
  \/ EncoderFinishes
  \/ EncoderKilled
  \/ OutProcessCatch
  \/ Catch
  \/ EndInput
  \/ Finally
  \/ FirstClosed
  \/ FirstCloseThrows
  \/ SecondClosed
  \/ SecondCloseThrows
  \/ AwaitOutProcess
  \/ RemoveTmp

SpecRun == InitRun /\ [][NextRun]_vars

\* rawVideoToFrames over every stream and every chunking of it.
InitReasm == SchedIdle /\ ReasmInit /\ call = CallIdle /\ comp = CompIdle
NextReasm ==
  \/ Feed
  \/ EndOfStream
SpecReasm == InitReasm /\ [][NextReasm]_vars

\* FrameSource.readNextFrame over every window and time.
InitCall == SchedIdle /\ CallInit /\ reasm = ReasmIdle /\ comp = CompIdle
NextCall ==
  \/ ReadNextFrame
  \/ ProducerReturns
SpecCall == InitCall /\ [][NextCall]_vars

\* The compositor over every transition and progress.
InitComp == SchedIdle /\ CompInit /\ reasm = ReasmIdle /\ call = CallIdle
NextComp == RunTransition
SpecComp == InitComp /\ [][NextComp]_vars

\* The effect blend, call after call, any statement of a call throwing.
InitGpu == SchedIdle /\ GpuInit /\ reasm = ReasmIdle /\ call = CallIdle
NextGpu ==
  \/ BlendCall
  \/ BlendStep
  \/ BlendFinally
SpecGpu == InitGpu /\ [][NextGpu]_vars

\* ================================================================ claims

\* The loop is inside an iteration or at its head: the current pair exists.
InLoop == pc \in {"loop", "readFrom", "readTo", "write"}

\* Frame counts of the clips before clip id, and the blend windows of the
\* pairs before the pair (id, id + 1), as the scheduler computes them.
RECURSIVE SumNumFrames(_)
SumNumFrames(id) == IF id <= 0 THEN 0 ELSE SumNumFrames(id - 1) + NumFrames(id - 1)
RECURSIVE SumSafeOverlap(_)
SumSafeOverlap(id) ==
  IF id <= 0 THEN 0 ELSE SumSafeOverlap(id - 1) + TransitionNumFramesSafe(id - 1)

\* C1: a run without failures writes the sum of the clips' frame counts less
\* the sum of the blend windows of the adjacent pairs; at every loop head the
\* count so far is exact too: the clips before the "from" clip in full, less
\* the windows before it, plus the "from" clip's frames from its incoming
\* window on.
C1_TotalFrames ==
  /\ pc \in {"end", "done"} =>
       totalFramesWritten
         = SumNumFrames(Len(clips)) - SumSafeOverlap(Len(clips) - 1)
  /\ pc = "loop" =>
       totalFramesWritten
         = SumNumFrames(transitionFromClipId)
             - SumSafeOverlap(transitionFromClipId) + fromClipFrameAt

\* A run of three clips with a blend window at both boundaries has ended.
C1_Witness ==
  /\ pc = "done"
  /\ Len(clips) = 3
  /\ TransitionNumFramesSafe(0) > 0
  /\ TransitionNumFramesSafe(1) > 0
  /\ totalFramesWritten > 0

\* C2 as claimed: the blend window is half of the least of the two clips'
\* frame counts and the transition's frame count.
C2_HalfOfAllThree ==
  InLoop =>
    transitionNumFramesSafe
      = Min(IF HasClip(transitionFromClipId + 1)
            THEN Min(fromClipNumFrames, toClipNumFrames)
            ELSE fromClipNumFrames,
            transitionNumFrames) \div 2

\* C2 amended: the blend window is the least of half the smaller clip frame
\* count (rounded down) and the whole transition frame count; the transition's
\* own frame count is not halved.
C2_HalfOfClipsOnly ==
  InLoop =>
    transitionNumFramesSafe
      = Min((IF HasClip(transitionFromClipId + 1)
             THEN Min(fromClipNumFrames, toClipNumFrames)
             ELSE fromClipNumFrames) \div 2,
            transitionNumFrames)

\* A blend has run in a window as long as the transition's frame count.
C2_Witness ==
  /\ pc = "write"
  /\ isInTransition
  /\ blendCalls > 0
  /\ transitionNumFramesSafe = transitionNumFrames
  /\ transitionNumFrames > 0

IsScenarioA == clipsIn = ScenarioA.clips /\ fps = ScenarioA.fps

\* C3 as claimed: scenario A blends 5 frames and writes 45.
C3_FiveAndFortyFive ==
  IsScenarioA =>
    /\ (InLoop /\ transitionFromClipId = 0) => transitionNumFramesSafe = 5
    /\ pc = "done" => (blendCalls = 5 /\ totalFramesWritten = 45)

\* C3 amended: scenario A uses a blend window of 10 frames (the compositor
\* runs on 10 ticks) and writes 20 + 30 - 10 = 40 frames.
C3_TenAndForty ==
  IsScenarioA =>
    /\ (InLoop /\ transitionFromClipId = 0) => transitionNumFramesSafe = 10
    /\ pc = "done" => (blendCalls = 10 /\ totalFramesWritten = 40)

\* Scenario A has run to its end.
C3_Witness == IsScenarioA /\ pc = "done" /\ blendCalls > 0

\* C4: with a next clip the blend window is at most half of the smaller of
\* the two clips' frame counts, whatever duration is configured; without a
\* next clip it is 0.
C4_SafeOverlapBound ==
  InLoop =>
    IF HasClip(transitionFromClipId + 1)
    THEN transitionNumFramesSafe
           <= Min(fromClipNumFrames, toClipNumFrames) \div 2
    ELSE transitionNumFramesSafe = 0

\* A blend runs between clips whose configured transition is longer than half
\* of either, and the window is the whole half.
C4_Witness ==
  /\ pc = "readTo"
  /\ clipsIn[transitionFromClipId + 1].transition.duration
       > clipsIn[transitionFromClipId + 1].duration \div 2
  /\ transitionNumFramesSafe = Min(fromClipNumFrames, toClipNumFrames) \div 2
  /\ transitionNumFramesSafe >= 2

\* Frame k (from 1) of a stream cut into frames of size bytes.
FrameOf(stream, size, k) == SubSeq(stream, (k - 1) * size + 1, k * size)

\* The transform of this run before its first chunk.
FreshTransform ==
  [reasm EXCEPT !.buffer = Uint8Array(reasm.size), !.bytesRead = 0,
                !.pushed = <<>>]

\* C5: however the stream was cut into chunks so far, the frames pushed are
\* those that the same bytes push when fed as one chunk, and frame k holds
\* the bytes [(k-1) * frameSize, k * frameSize) of the stream.
C5_ChunkBoundaryInvariant ==
  reasm # ReasmIdle =>
    /\ reasm.pushed
         = transform(FreshTransform, SubSeq(reasm.stream, 1, reasm.fed)).pushed
    /\ \A k \in 1..Len(reasm.pushed) :
         reasm.pushed[k] = FrameOf(reasm.stream, reasm.size, k)

\* A stream of several frames has ended after a chunk that ended inside a
\* frame and a chunk that completed two frames or more.
C5_Witness ==
  /\ reasm # ReasmIdle
  /\ reasm.ended
  /\ reasm.midFrame
  /\ reasm.multi
  /\ reasm.size > 1
  /\ Len(reasm.pushed) >= 3

\* C6: of the bytes fed so far, one buffer is pushed per full frame, each of
\* exactly frameSize bytes; at the end of a stream of L bytes that is
\* floor(L / frameSize) buffers, and the L mod frameSize bytes left are in no
\* buffer.
C6_WholeFramesOnly ==
  reasm # ReasmIdle =>
    /\ \A k \in 1..Len(reasm.pushed) : Len(reasm.pushed[k]) = reasm.size
    /\ Len(reasm.pushed) = reasm.fed \div reasm.size
    /\ reasm.bytesRead = reasm.fed % reasm.size
    /\ reasm.ended =>
         /\ reasm.fed = Len(reasm.stream)
         /\ Len(reasm.pushed) = Len(reasm.stream) \div reasm.size

\* A stream that is not a whole number of frames has ended, with frames
\* pushed.
C6_Witness ==
  /\ reasm # ReasmIdle
  /\ reasm.ended
  /\ Len(reasm.stream) % reasm.size # 0
  /\ Len(reasm.pushed) >= 1

\* The time of the call against the layer's window, in units of 1 / d tick.
CallAt == call.time[1]
CallStart == call.layer.start * call.time[2]
CallStop == (call.layer.start + call.layer.layerDuration) * call.time[2]
\* The time of the call, a double, is at least / at most x.
CallAtOrAfter(x) == CallAt > x \/ (CallAt = x /\ call.time[3] >= 0)
CallAtOrBefore(x) == CallAt < x \/ (CallAt = x /\ call.time[3] <= 0)

\* C7 as claimed: outside the half-open window [start, start + layerDuration)
\* the producer is not invoked and nothing is returned; inside it is invoked
\* once, with progress (time - start) / layerDuration.
C7_HalfOpenWindow ==
  /\ call.state = "returned" =>
       IF CallAtOrAfter(CallStart) /\ ~CallAtOrAfter(CallStop)
       THEN /\ call.invocations = 1
            /\ call.progress[1] * (call.layer.layerDuration * call.time[2])
                 = (CallAt - CallStart) * call.progress[2]
       ELSE call.invocations = 0 /\ call.result = NoFrame
  /\ call.state = "pending" =>
       (CallAtOrAfter(CallStart) /\ ~CallAtOrAfter(CallStop))

\* C7 amended: the window is closed, [start, start + layerDuration].  Outside
\* it the producer is not invoked and nothing is returned; inside it, its end
\* included, the producer is invoked once with progress
\* (time - start) / layerDuration, which is in [0, 1], and its buffer is
\* returned.  While the call waits for the producer, the time is inside the
\* window, the producer has been invoked once, with that progress, and
\* nothing is returned yet; the producer is not invoked again.
C7_ClosedWindow ==
  /\ call.state = "returned" =>
       IF CallAtOrAfter(CallStart) /\ CallAtOrBefore(CallStop)
       THEN /\ call.invocations = 1
            /\ call.progress[2] > 0
            /\ call.progress[1] * (call.layer.layerDuration * call.time[2])
                 = (CallAt - CallStart) * call.progress[2]
            /\ RatLeq(<<0, 1>>, call.progress)
            /\ RatLeq(call.progress, <<1, 1>>)
            /\ call.result
                 = <<"layer", 0, 1, call.progress[1], call.progress[2]>>
       ELSE call.invocations = 0 /\ call.result = NoFrame
  /\ call.state = "pending" =>
       /\ CallAtOrAfter(CallStart) /\ CallAtOrBefore(CallStop)
       /\ call.invocations = 1
       /\ call.progress[1] * (call.layer.layerDuration * call.time[2])
            = (CallAt - CallStart) * call.progress[2]
       /\ call.result = NoFrame
  /\ call.state = "called" => call.invocations = 0

\* A call at the very end of the window has invoked the producer with
\* progress 1.
C7_Witness ==
  /\ call.state = "returned"
  /\ CallAt = CallStop
  /\ call.time[3] = 0
  /\ call.layer.start > 0
  /\ call.invocations = 1
  /\ call.progress[1] = call.progress[2]

\* C8: without a source the compositor returns the "from" buffer itself when
\* the eased progress is at most 0.5 and the "to" buffer itself when it is
\* above: for the linear and the cubic easing above 0.5 means progress above
\* 1/2, for easeOutExpo progress above 1/10.
C8_CutReturnsFromOrTo ==
  (comp.state = "returned" /\ comp.transition.source = "") =>
    LET k == comp.progress[1]
        s == comp.progress[2]
        above == IF comp.transition.easing = "easeOutExpo"
                 THEN 10 * k > s ELSE 2 * k > s
    IN  /\ above => comp.out = comp.toFrame
        /\ ~above => comp.out = comp.fromFrame
        /\ comp.out \in {comp.fromFrame, comp.toFrame}

\* Cut calls right at the thresholds have returned "from", and one above
\* has returned "to".
C8_Witness ==
  /\ comp.state = "returned"
  /\ comp.transition.source = ""
  /\ comp.transition.easing = "easeInOutCubic"
  /\ comp.progress = <<4, 7>>
  /\ comp.out = comp.toFrame
  /\ comp.out # comp.fromFrame

IsScenarioB == clipsIn = ScenarioB.clips /\ fps = ScenarioB.fps

\* The buffer the sole layer of clip 0 returned on tick k of n: its producer
\* was invoked with progress k / n.
IsSoleLayerBuffer(frame, k, n) ==
  /\ Len(frame) = 5
  /\ frame[1] = "layer" /\ frame[2] = 0 /\ frame[3] = 1
  /\ frame[5] > 0
  /\ frame[4] * n = k * frame[5]

\* Reads of a clip renderer called so far when no clip is blended with the
\* next: one per write, and one more when a read has been called for the
\* write to come.
ClipReads ==
  totalFramesWritten + (IF pc \in {"readFrom", "write"} THEN 1 ELSE 0)

\* C9 as claimed: scenario B writes 24 frames, each the buffer its layer
\* returned on that tick, and the clip renderer creates no surface.
C9_NoSurfaceCreated ==
  IsScenarioB =>
    /\ pc = "done" => totalFramesWritten = 24
    /\ (pc = "loop" /\ totalFramesWritten > 0) =>
         IsSoleLayerBuffer(lastWritten, totalFramesWritten - 1, 24)
    /\ canvasesCreated = 0

\* C9 amended: scenario B writes 24 frames, each the buffer its layer
\* returned on that tick; the clip renderer creates a surface on every tick
\* and never renders one.
C9_SurfaceCreatedNeverRendered ==
  IsScenarioB =>
    /\ pc = "done" => totalFramesWritten = 24
    /\ (pc = "loop" /\ totalFramesWritten > 0) =>
         IsSoleLayerBuffer(lastWritten, totalFramesWritten - 1, 24)
    /\ canvasesCreated = ClipReads
    /\ canvasesRendered = 0
    /\ blendCalls = 0

\* Scenario B has run to its end.
C9_Witness ==
  /\ IsScenarioB
  /\ pc = "done"
  /\ canvasesCreated = 24
  /\ IsSoleLayerBuffer(lastWritten, 23, 24)

IsScenarioC == clipsIn = ScenarioC.clips /\ fps = ScenarioC.fps

\* C10: after a tick on which the layer returned nothing, the frame written
\* is the frame written on the tick before and a warning was given; the run
\* goes on to its full frame count.
C10_GapRepeatsPreviousFrame ==
  IsScenarioC =>
    /\ (pc = "loop" /\ gapTick /\ totalFramesWritten >= 2) =>
         (lastWritten = prevWritten /\ warnings >= 1)
    /\ pc = "done" => totalFramesWritten = 10

\* ---------------------------------------------------------------- C11

IsScenarioD == clipsIn = ScenarioD.clips /\ fps = ScenarioD.fps

\* The encode process ended by itself with a non-zero exit code while the
\* write of frame k was outstanding; nothing else of the run fails.
SinkFailedOnFrame(k) ==
  /\ outProcess.unexpected
  /\ outProcess.status = "exit1"
  /\ outProcess.writing
  /\ outProcess.frame = k
  /\ closeThrows = {}
  /\ thrown \in {"", "sink"}

\* C11: in Scenario D, when the sink's write of frame 3 fails, the run aborts
\* on that tick: totalFramesWritten stays at 3 or less, and the run ends with
\* an error after close() on both sources.
C11_SinkFailureOnFrame3 ==
  (IsScenarioD /\ SinkFailedOnFrame(3)) =>
    /\ totalFramesWritten <= 3
    /\ pc = "returned" =>
         /\ result = "error"
         /\ \A i \in 1..Len(closeCalls) : closeCalls[i] >= 1

\* ---------------------------------------------------------------- C12

\* C12: when the encode process fails or ends by itself before the scheduler
\* has closed the sink (non-zero exit code, signal, early exit), Editly never
\* reports success.
C12_EncoderFailureSurfaces ==
  outProcess.unexpected => result # "ok"

\* ---------------------------------------------------------------- C13

\* The sink has ended by itself.
SinkTerminated == outProcess.unexpected /\ outProcess.status # "running"

\* C13: a write is issued only when no write is outstanding, and once the
\* sink has ended by itself no frame is counted as written any more.
C13_BackpressureAndFailFast ==
  [][ /\ (pc' = "write" /\ pc # "write") => pc \in {"readFrom", "readTo"}
      /\ SinkTerminated => totalFramesWritten' = totalFramesWritten ]_vars

\* ---------------------------------------------------------------- C14

\* C14: at most two clip sources are open at once, none of a clip beyond
\* transitionFromClipId + 1; inside the loop the open sources are exactly
\* frameSource1, of clip transitionFromClipId, and frameSource2, of the clip
\* after it if there is one: the superseded source is closed by then.  Inside
\* the clip-boundary branch, from the close() call on the superseded source to
\* the return of the next source's set-up, the promoted source alone is open.
C14_AtMostTwoSources ==
  /\ Cardinality(openSources) <= 2
  /\ \A id \in openSources : id <= transitionFromClipId + 1
  /\ InLoop =>
       /\ frameSource1 = transitionFromClipId
       /\ frameSource2 = getTransitionToSource(transitionFromClipId)
       /\ openSources = {frameSource1, frameSource2} \ {NoSource}
  /\ pc \in {"advClose", "advSetup"} => openSources = {transitionFromClipId}
  /\ (pc = "catch" /\ thrown = "setup") =>
       openSources = {frameSource1} \ {NoSource}

\* The loop has moved on to the second of three clips: the first source is
\* closed, the second and third are open.
C14_Witness ==
  /\ pc = "loop"
  /\ Len(clips) = 3
  /\ transitionFromClipId = 1
  /\ closeCalls[1] = 1
  /\ openSources = {1, 2}

\* ---------------------------------------------------------------- C15

\* C15: when an error of the pipeline (a read, the compositor, a source's
\* set-up or close, the sink) reaches the caller, close() has been invoked on
\* every source that was open, the "to" source included when the close() of
\* the "from" source throws.
C15_OpenSourcesClosedOnError ==
  (result = "error" /\ thrown # "audio") => openSources = {}

\* ---------------------------------------------------------------- C16

\* C16: an error that reaches the caller after the temporary directory was
\* created leaves no temporary directory behind unless keepTmp is set; with
\* keepTmp set the directory is never removed.
C16_TmpDirRemovedOnError ==
  /\ (result = "error" /\ ~keepTmp) => tmpDir = "removed"
  /\ keepTmp => tmpDir # "removed"

\* ---------------------------------------------------------------- C17

\* C17: between two calls of the effect blend no GPU resource of a call is
\* live, whether the call returned or threw.
C17_NoGpuResourceLeftLive ==
  comp.state = "idle" => comp.live = {}

\* ---------------------------------------------------------------- C18

\* C18: when the compositor throws on a tick, the loop is left at once: no
\* buffer is written and no counter advances on that tick or later, the encode
\* process is terminated in the catch block (it has ended, or it was sent the
\* signal of outProcess.kill()), and Editly ends with an error: the
\* compositor's, or that of a close() of the finally block.
C18_BlendFailureIsFatal ==
  /\ [](thrown = "blend" =>
          /\ pc \in {"catch", "finally", "closing1", "closing2", "finish",
                      "returned"}
          /\ pc # "catch" =>
               (outProcess.killed \/ outProcess.status # "running")
          /\ pc = "returned" => result = "error")
  /\ [][thrown = "blend" =>
          /\ thrown' \in {"blend", "close"}
          /\ result' \in {"pending", "error"}]_vars
  /\ [][thrown' = "blend" =>
          UNCHANGED <<counters, lastWritten, prevWritten>>]_vars

\* The compositor threw after frames were written; the process was killed and
\* the error has reached the caller.
C18_Witness ==
  /\ thrown = "blend"
  /\ pc = "returned"
  /\ result = "error"
  /\ outProcess.killed
  /\ outProcess.status = "signal"
  /\ ~outProcess.unexpected
  /\ totalFramesWritten > 0

\* ---------------------------------------------------------------- C19

\* The transition duration configured for clip i, in ticks: the caller's,
\* the default's for a transition without one, 0 for a null transition.
ConfiguredDuration(i) ==
  TransitionOptions(Configuration(clipsIn)[i].transition, FALSE).duration

\* C19: after parseConfig every clip's transition lasts at most half of the
\* clip, at most half of the next clip and at most the configured duration,
\* and the last clip's transition lasts 0.
\* clips[i].transition.duration is in half ticks, the clips' durations and
\* the configured duration are in ticks.
C19_TransitionDurationClamped ==
  \A i \in 1..Len(clips) :
    /\ 2 * clips[i].transition.duration <= HalfTicks(clips[i].duration)
    /\ i < Len(clips) =>
         2 * clips[i].transition.duration <= HalfTicks(clips[i + 1].duration)
    /\ clips[i].transition.duration <= HalfTicks(ConfiguredDuration(i))
    /\ clips[i].transition.duration >= 0
    /\ i = Len(clips) => clips[i].transition.duration = 0

\* A transition configured longer than half of the shorter next clip, of an
\* odd number of ticks, was cut down to that half, a tick and a half.
C19_Witness ==
  /\ pc = "loop"
  /\ \E i \in 1..(Len(clips) - 1) :
       /\ clips[i + 1].duration < clips[i].duration
       /\ HalfTicks(clipsIn[i].transition.duration)
            > clips[i].transition.duration
       /\ 2 * clips[i].transition.duration = HalfTicks(clips[i + 1].duration)
       /\ clips[i + 1].duration % 2 = 1

\* ---------------------------------------------------------------- C20

\* One iteration of the loop ends: the loop is back at its head or left.
IterationEnds ==
  pc' \in {"loop", "end"} /\ pc \in {"loop", "write", "advSetup"}

\* C20: when every read and write completes the loop reaches the advance past
\* the last clip and the run ends normally; every iteration either raises
\* transitionFromClipId, or writes one frame and raises fromClipFrameAt.
C20_Termination ==
  /\ <>(pc = "done" /\ transitionFromClipId = Len(clips))
  /\ [][IterationEnds =>
          \/ transitionFromClipId' = iterationFromClipId + 1
          \/ /\ transitionFromClipId' = iterationFromClipId
             /\ totalFramesWritten' = totalFramesWritten + 1
             /\ fromClipFrameAt' = fromClipFrameAt + 1]_vars
  /\ [][pc' = "advClose" =>
          transitionFromClipId' = transitionFromClipId + 1]_vars

\* A run over three clips has ended after both kinds of iteration.
C20_Witness ==
  /\ pc = "done"
  /\ Len(clips) = 3
  /\ transitionFromClipId = 3
  /\ totalFramesWritten = 4

\* ---------------------------------------------------------------- C21

\* The last step of the clip-boundary branch that goes on with a next clip
\* (the set-up of the next source has returned), and any step of the branch.
AdvanceStep == pc = "advSetup" /\ pc' = "loop"
AdvanceBranch == pc' = "advClose" \/ pc \in {"advClose", "advSetup"}

\* C21 as claimed: at an advance with a next clip fromClipFrameAt becomes the
\* blend window of the new pair, toClipFrameAt becomes 0, no frame is written
\* and totalFramesWritten is unchanged.
C21_ResumeAtNewPairWindow ==
  [][ /\ AdvanceStep =>
           /\ fromClipFrameAt' = TransitionNumFramesSafe(transitionFromClipId')
           /\ toClipFrameAt' = 0
      /\ AdvanceBranch =>
           UNCHANGED <<totalFramesWritten, lastWritten, prevWritten>> ]_vars

\* C21 amended: fromClipFrameAt becomes the blend window of the pair that has
\* just finished, which is the number of frames the promoted clip was read at
\* as the "to" clip.
C21_ResumeAtFinishedPairWindow ==
  [][ /\ AdvanceStep =>
           /\ fromClipFrameAt'
                = TransitionNumFramesSafe(transitionFromClipId' - 1)
           /\ fromClipFrameAt' = toClipFrameAt
           /\ toClipFrameAt' = 0
      /\ AdvanceBranch =>
           UNCHANGED <<totalFramesWritten, lastWritten, prevWritten>> ]_vars

\* Right after an advance whose finished pair and new pair have different
\* blend windows.
C21_Witness ==
  /\ pc = "loop"
  /\ transitionFromClipId >= 1
  /\ HasClip(transitionFromClipId + 1)
  /\ toClipFrameAt = 0
  /\ fromClipFrameAt = TransitionNumFramesSafe(transitionFromClipId - 1)
  /\ fromClipFrameAt > 0
  /\ fromClipFrameAt # TransitionNumFramesSafe(transitionFromClipId)

\* ---------------------------------------------------------------- C22

\* A step that writes a frame.
WriteStep == pc = "write" /\ pc' = "loop"

\* The tick is inside the blend window, spelled out.
InBlendWindow ==
  /\ frameSource2 # NoSource
  /\ TransitionNumFramesSafe(transitionFromClipId) > 0
  /\ fromClipFrameAt - (NumFrames(transitionFromClipId)
                          - TransitionNumFramesSafe(transitionFromClipId)) >= 0

\* C22: a writing tick raises fromClipFrameAt and totalFramesWritten by one
\* and toClipFrameAt by one exactly inside the blend window; no other step
\* raises them; totalFramesWritten and transitionFromClipId never decrease;
\* fromClipFrameAt and toClipFrameAt are set back only at an advance.
C22_PipelineCounters ==
  [][ /\ WriteStep =>
           /\ fromClipFrameAt' = fromClipFrameAt + 1
           /\ totalFramesWritten' = totalFramesWritten + 1
           /\ toClipFrameAt' = toClipFrameAt + (IF InBlendWindow THEN 1 ELSE 0)
      /\ ~WriteStep =>
           /\ totalFramesWritten' = totalFramesWritten
           /\ fromClipFrameAt' <= fromClipFrameAt
           /\ toClipFrameAt' <= toClipFrameAt
      /\ transitionFromClipId' >= transitionFromClipId
      /\ (fromClipFrameAt' < fromClipFrameAt \/ toClipFrameAt' < toClipFrameAt)
           => AdvanceStep
      /\ (fromClipFrameAt' # fromClipFrameAt \/ toClipFrameAt' # toClipFrameAt)
           => (WriteStep \/ AdvanceStep) ]_vars

\* After an advance has set the counters back, frames were written inside the
\* next blend window and outside it.
C22_Witness ==
  /\ pc = "loop"
  /\ transitionFromClipId = 1
  /\ toClipFrameAt >= 1
  /\ fromClipFrameAt > toClipFrameAt + TransitionNumFramesSafe(0)
  /\ NumFrames(1) - TransitionNumFramesSafe(1) > TransitionNumFramesSafe(0)

\* ---------------------------------------------------------------- C23

\* The reads of clip renderers issued so far in the current tick.
ReadsThisTick ==
  CASE pc = "readFrom" -> 1
    [] pc = "readTo"   -> 2
    [] pc = "write"    -> 1 + (IF InBlendWindow THEN 1 ELSE 0)
    [] OTHER           -> 0

\* C23: every tick reads the "from" renderer once, then, only inside the blend
\* window, the "to" renderer once, and only then writes; a read is complete
\* before the next read or the write is issued.  Every read of a clip
\* renderer creates one surface, so the surfaces count the reads: one for
\* each written frame, one more for each blended frame.
C23_SequentialReads ==
  /\ [](InLoop \/ pc \in {"end", "done"} =>
          canvasesCreated
            = totalFramesWritten + SumSafeOverlap(transitionFromClipId)
                + (IF InLoop THEN toClipFrameAt ELSE 0) + ReadsThisTick)
  /\ [][ /\ pc' = "readFrom" =>
              /\ pc = "loop"
              /\ canvasesCreated' = canvasesCreated + 1
         /\ pc' = "readTo" =>
              /\ pc = "readFrom"
              /\ InBlendWindow
              /\ canvasesCreated' = canvasesCreated + 1
         /\ (pc' = "write" /\ pc = "readFrom") => ~InBlendWindow
         /\ (pc' = "write" /\ pc # "readFrom") => pc = "readTo"
         /\ pc' \notin {"readFrom", "readTo"} =>
              canvasesCreated' = canvasesCreated ]_vars

\* A tick inside a blend window has read both renderers and not yet written.
C23_Witness ==
  /\ pc = "write"
  /\ InBlendWindow
  /\ totalFramesWritten >= 1
  /\ canvasesCreated = totalFramesWritten + toClipFrameAt + 2

\* ---------------------------------------------------------------- C24

\* The "from" renderer was read on this tick, every producer returning what
\* its type returns.
FromWasRead == pc \in {"readTo", "write"} /\ ~gapTick

\* The visual layers of the "from" clip, and those active at the time read.
FromVisual ==
  LET vis == visualLayers(Clip(frameSource1).layers)
  IN  {vis[k] : k \in 1..Len(vis)}
FromActive ==
  {l \in FromVisual :
     FrameSource_readNextFrame(Clip(frameSource1).layers[l], fromClipTime).invoked}

\* Exactly one visual layer is active and it returns a buffer.
OneActiveBufferLayer ==
  /\ Cardinality(FromActive) = 1
  /\ \A l \in FromActive : ReturnsBuffer(Clip(frameSource1).layers[l].type)

\* The renderer returned the buffer of layer l itself.
ReturnedLayerBuffer(l) ==
  /\ Len(frameSource1Data) = 5
  /\ frameSource1Data[1] = "layer"
  /\ frameSource1Data[3] = l

\* C24 as claimed: with exactly one visual layer active, returning a buffer,
\* the clip renderer returns that buffer itself, whatever inactive visual
\* layers the clip has besides.
C24_BypassOnOneActiveLayer ==
  (FromWasRead /\ OneActiveBufferLayer) =>
    \A l \in FromActive : ReturnedLayerBuffer(l)

\* C24 amended: the buffer itself is returned exactly when the clip has one
\* visual layer in all; with more visual layers the buffer of the one active
\* layer goes on the surface as an image and the rendered surface is
\* returned.
C24_BypassOnOneLayerInAll ==
  (FromWasRead /\ OneActiveBufferLayer) =>
    \A l \in FromActive :
      IF Cardinality(FromVisual) = 1
      THEN ReturnedLayerBuffer(l)
      ELSE /\ frameSource1Data[1] = "canvas"
           /\ Len(frameSource1Data[3]) = 1
           /\ frameSource1Data[3][1][1] = "image"
           /\ frameSource1Data[3][1][2][3] = l

\* Two buffer layers, only the first active: the surface was rendered.
C24_Witness ==
  /\ FromWasRead
  /\ OneActiveBufferLayer
  /\ Cardinality(FromVisual) = 2
  /\ \A l \in FromVisual : ReturnsBuffer(Clip(frameSource1).layers[l].type)
  /\ frameSource1Data[1] = "canvas"

\* ---------------------------------------------------------------- C25

\* The layer an object on the surface came from.
LayerOf(obj) == IF obj[1] = "image" THEN obj[2][3] ELSE obj[3]

\* The layers of a sequence rise strictly.
Rising(s) == \A i, j \in 1..Len(s) : i < j => s[i] < s[j]

\* C25: the clip renderer invokes exactly the active visual layers, in layer
\* order, never an audio layer; the surface it renders holds one object for
\* each active layer and no other, a later layer's object above every
\* earlier layer's.
C25_PaintersOrder ==
  FromWasRead =>
    LET layers == Clip(frameSource1).layers
        r      == ClipReadNextFrame(frameSource1, layers, fromClipTime, {})
    IN  /\ frameSource1Data = r.frame
        /\ Rising(r.read)
        /\ {r.read[k] : k \in 1..Len(r.read)} = FromActive
        /\ \A k \in 1..Len(r.read) : layers[r.read[k]].type # "audio"
        /\ r.rendered =>
             LET objs   == frameSource1Data[3]
                 placed == [k \in 1..Len(objs) |-> LayerOf(objs[k])]
             IN  /\ frameSource1Data[1] = "canvas"
                 /\ Rising(placed)
                 /\ {placed[k] : k \in 1..Len(placed)} = FromActive

\* Two layers active at once: a drawn background with a buffer layer's image
\* above it.
C25_Witness ==
  /\ FromWasRead
  /\ Cardinality(FromActive) = 2
  /\ frameSource1Data[1] = "canvas"
  /\ Len(frameSource1Data[3]) = 2
  /\ frameSource1Data[3][1][1] = "rect"
  /\ frameSource1Data[3][2][1] = "image"

\* An audio layer beside a buffer layer: the audio layer was not read.
C25_WitnessAudio ==
  /\ FromWasRead
  /\ \E l \in 1..Len(Clip(frameSource1).layers) :
       Clip(frameSource1).layers[l].type = "audio"
  /\ Cardinality(FromActive) = 1

\* ---------------------------------------------------------------- C26

\* The steps on which the read of the "from" and of the "to" renderer
\* returns, and the step that leaves the loop after the last clip.
ReadFromStep == pc = "readFrom" /\ pc' \in {"readTo", "write"}
ReadToStep == pc = "readTo" /\ pc' = "write"
LastClipStep == pc = "loop" /\ pc' = "end"

\* C26: every clip is read at the indices 0 .. numFrames - 1, each once and
\* in rising order.  The run starts with both counters at 0; the "to" clip is
\* read at toClipFrameAt, below the blend window, and the "from" clip at
\* fromClipFrameAt, below its frame count; a write moves the "from" counter
\* on by one, and the "to" counter too exactly on the ticks that read the
\* "to" clip; a clip is left only with all its indices read; at an advance
\* toClipFrameAt is the blend window of the finished pair and the promoted
\* clip goes on from there.
C26_DriftFreeIndexing ==
  /\ (fromClipFrameAt = 0 /\ toClipFrameAt = 0 /\ transitionFromClipId = 0)
  /\ [][ /\ ReadFromStep =>
              /\ 0 <= fromClipFrameAt
              /\ fromClipFrameAt < NumFrames(transitionFromClipId)
              /\ (pc' = "readTo") = InBlendWindow
         /\ ReadToStep =>
              /\ InBlendWindow
              /\ 0 <= toClipFrameAt
              /\ toClipFrameAt < TransitionNumFramesSafe(transitionFromClipId)
              /\ toClipFrameAt < NumFrames(transitionFromClipId + 1)
              /\ toClipFrameAt
                   = fromClipFrameAt
                       - (NumFrames(transitionFromClipId)
                            - TransitionNumFramesSafe(transitionFromClipId))
         /\ WriteStep =>
              /\ fromClipFrameAt' = fromClipFrameAt + 1
              /\ toClipFrameAt'
                   = toClipFrameAt + (IF InBlendWindow THEN 1 ELSE 0)
         /\ (AdvanceStep \/ LastClipStep) =>
              fromClipFrameAt = NumFrames(iterationFromClipId)
         /\ AdvanceStep =>
              /\ toClipFrameAt = TransitionNumFramesSafe(iterationFromClipId)
              /\ fromClipFrameAt' = toClipFrameAt
              /\ toClipFrameAt' = 0
         /\ LastClipStep => toClipFrameAt = 0 ]_vars

\* The last index of a promoted clip with an odd frame count is about to be
\* written: the clip was read through the "to" counter first, and its own
\* outgoing blend is under way.
C26_Witness ==
  /\ pc = "write"
  /\ transitionFromClipId >= 1
  /\ TransitionNumFramesSafe(transitionFromClipId - 1) > 0
  /\ NumFrames(transitionFromClipId) % 2 = 1
  /\ fromClipFrameAt = NumFrames(transitionFromClipId) - 1
  /\ InBlendWindow
  /\ toClipFrameAt = TransitionNumFramesSafe(transitionFromClipId) - 1

\* ---------------------------------------------------------------- C27

\* C27: on the first tick after an advance transitionFrameAt <= 0: the
\* frames the promoted clip was read at during its incoming blend and the
\* frames of its outgoing blend window fit into the clip together.
C27_ChainedTransitionsBalanced ==
  [][AdvanceStep =>
       /\ transitionFrameAt' <= 0
       /\ TransitionNumFramesSafe(transitionFromClipId' - 1)
            + TransitionNumFramesSafe(transitionFromClipId')
            <= NumFrames(transitionFromClipId') ]_vars

\* Right after an advance into a middle clip of odd frame count whose two
\* blend windows, each of a transition configured longer than the clip's
\* half, leave one frame between them.
C27_Witness ==
  /\ pc = "loop"
  /\ transitionFromClipId >= 1
  /\ HasClip(transitionFromClipId + 1)
  /\ toClipFrameAt = 0
  /\ fromClipFrameAt = TransitionNumFramesSafe(transitionFromClipId - 1)
  /\ fromClipFrameAt > 0
  /\ TransitionNumFramesSafe(transitionFromClipId) > 0
  /\ TransitionNumFrames(transitionFromClipId) > TransitionNumFramesSafe(transitionFromClipId)
  /\ NumFrames(transitionFromClipId) % 2 = 1
  /\ transitionFrameAt = -1

\* ---------------------------------------------------------------- C28

\* The blend windows of the pairs so far have each been blended in full,
\* the current one up to toClipFrameAt.
BlendCallsSoFar ==
  SumSafeOverlap(transitionFromClipId)
    + (IF InLoop THEN toClipFrameAt ELSE 0)
    + (IF pc = "write" /\ InBlendWindow THEN 1 ELSE 0)

\* C28: the compositor is invoked once on each tick of a blend window and on
\* no other tick: s times for a pair with blend window s, with progress 0/s,
\* 1/s, .., (s-1)/s in that order on ticks that follow one another, never
\* with progress 1, never when s = 0 and never without a next clip.
C28_CompositorPerBlendTick ==
  /\ [](InLoop \/ pc \in {"end", "done"} => blendCalls = BlendCallsSoFar)
  /\ [][ /\ ReadToStep =>
              /\ blendCalls' = blendCalls + 1
              /\ HasClip(transitionFromClipId + 1)
              /\ transitionNumFramesSafe > 0
              /\ transitionFrameAt = toClipFrameAt
              /\ 0 <= transitionFrameAt
              /\ transitionFrameAt < transitionNumFramesSafe
              /\ \E g \in GapChoices(Clip(frameSource2).layers, toClipTime) :
                   outFrameData' =
                     runTransitionOnFrame(currentTransition, frameSource1Data,
                       ClipReadNextFrame(frameSource2,
                         Clip(frameSource2).layers, toClipTime, g).frame,
                       <<toClipFrameAt, transitionNumFramesSafe>>)
         /\ ~ReadToStep => blendCalls' = blendCalls
         /\ (WriteStep /\ InBlendWindow
               /\ toClipFrameAt + 1 < transitionNumFramesSafe) =>
              InBlendWindow'
         /\ (WriteStep /\ ~InBlendWindow /\ transitionNumFramesSafe > 0
               /\ HasClip(transitionFromClipId + 1)
               /\ transitionFrameAt = -1) =>
              (InBlendWindow' /\ toClipFrameAt' = 0) ]_vars

\* The last blended frame of a window of at least two frames is about to be
\* written: progress (s-1)/s.
C28_Witness ==
  /\ pc = "write"
  /\ InBlendWindow
  /\ transitionNumFramesSafe >= 2
  /\ toClipFrameAt = transitionNumFramesSafe - 1
  /\ Len(outFrameData) = 6
  /\ outFrameData[1] = "blend"
  /\ outFrameData[5] = transitionNumFramesSafe - 1
  /\ outFrameData[6] = transitionNumFramesSafe
  /\ blendCalls = SumSafeOverlap(transitionFromClipId) + transitionNumFramesSafe

\* ---------------------------------------------------------------- C29

\* The source of clip id was set up: it is open, or close() was invoked on
\* it.
WasSetUp(id) == id \in openSources \/ closeCalls[id + 1] >= 1

\* C29: when Editly has returned or thrown, close() has been invoked exactly
\* once on every clip source that was set up, whichever way the run ended.
C29_EverySourceClosedOnce ==
  result # "pending" =>
    \A id \in 0..(Len(clips) - 1) : WasSetUp(id) => closeCalls[id + 1] = 1

\* ---------------------------------------------------------------- C30

\* What a read of clip c's renderer at the given time can return, over the
\* layer reads that may come back empty.
FramesOfRead(c, time) ==
  {ClipReadNextFrame(c, Clip(c).layers, time, g).frame :
     g \in GapChoices(Clip(c).layers, time)}

\* C30: a read of a clip renderer returns a buffer whatever its layers do,
\* so the scheduler never warns and never falls back to an earlier buffer:
\* the "from" buffer is the one read on this tick, and the buffer handed to
\* the sink is defined on every tick.
C30_RendererAlwaysReturnsBuffer ==
  /\ warnings = 0
  /\ pc \in {"loop", "readFrom"} /\ fromClipFrameAt < fromClipNumFrames =>
       NoFrame \notin FramesOfRead(frameSource1, fromClipTime)
  /\ pc = "readTo" =>
       NoFrame \notin FramesOfRead(frameSource2, toClipTime)
  /\ pc \in {"readTo", "write"} =>
       /\ frameSource1Data # NoFrame
       /\ frameSource1Data \in FramesOfRead(frameSource1, fromClipTime)
  /\ pc = "write" => outFrameData # NoFrame
  /\ totalFramesWritten >= 1 => lastWritten # NoFrame

\* The sole layer of the clip came back empty: the bare surface was rendered
\* and is about to be written.
C30_Witness ==
  /\ pc = "write"
  /\ gapTick
  /\ Cardinality(FromVisual) = 1
  /\ Cardinality(FromActive) = 1
  /\ ~InBlendWindow
  /\ outFrameData = renderFabricCanvas(frameSource1, <<>>)

\* No layer of the clip is active at the time read: the bare surface again.
C30_WitnessInactive ==
  /\ pc = "write"
  /\ FromActive = {}
  /\ frameSource1Data = renderFabricCanvas(frameSource1, <<>>)

====
